---- MODULE Spec2Model ----
(***************************************************************************)
(* Three programs of the repository, each with its own specification over *)
(* its own variables (the variables of the other two stay as Init left     *)
(* them):                                                                  *)
(*   Spec       deet, the debugger (src/deet/src)                          *)
(*   DedupSpec  dedup of part-2-warmup (src/part-2-warmup/src/main.rs)     *)
(*   RateSpec   the rate limit of balancebeam (src/balancebeam/src/main.rs)*)
(* and two specifications that exercise Inferior's memory primitives on    *)
(* one traced process, outside a session:                                  *)
(*   PatchSpec    calls of Inferior::write_byte                            *)
(*   InstallSpec  calls of Inferior::write_breakpoints                     *)
(* and one that takes Debugger::backtrace a frame at a time over any       *)
(* content of the stack:                                                   *)
(*   BacktraceSpec, and BacktraceFairSpec for its termination              *)
(*                                                                         *)
(* deet: the debugger session (src/deet/src/debugger.rs) driving one       *)
(* traced child process (src/deet/src/inferior.rs).                        *)
(*                                                                         *)
(* One action per debugger command (Debugger::run's match arms).  A        *)
(* command is atomic: the debugger is single threaded and blocks in every  *)
(* wait, so the states between two commands are the states at the prompt.  *)
(* What the traced program and the OS do inside a command (the status a    *)
(* wait returns, whether the spawn succeeds) is drawn with \E from the     *)
(* outcomes the process state allows.  `log` keeps the trace requests and  *)
(* the messages of the last command, in program order; a step records the  *)
(* byte the process holds at its ip, a continue the addresses that hold    *)
(* the trap opcode.                                                        *)
(***************************************************************************)
EXTENDS Integers, Sequences, FiniteSets, TLC

VARIABLES
    breakpoints,   \* Debugger.breakpoints : Vec<usize>
    inferior,      \* Debugger.inferior : Option<Inferior>, None or [pid, bp_map]
    children,      \* OS side: one record per child spawned so far, indexed by pid
    session,       \* "prompt" | "get_yes_no" | "panicked" | "quit": where Debugger::run stands
    p,             \* get_yes_no's prompt for its next readline, "" outside get_yes_no
    log,           \* trace requests and messages of the last command or readline
    backtrace_frame,   \* deet: the locals of one call of backtrace taken a frame at a time
    dedup_frame,   \* part-2-warmup: the locals of one call of dedup and where it stands
    max_requests_per_minute,   \* balancebeam: ProxyState.max_requests_per_minute
    num_reqs_by_ip,            \* balancebeam: ProxyState.num_reqs_by_ip : HashMap<String, usize>
    lock,          \* balancebeam: the connection that holds the RwLock's write guard, or None
    conns,         \* balancebeam: where each handle_connection task stands
    tally,         \* balancebeam: what happened to the requests since the last reset
    input_vec,     \* parallel_map: the vector parallel_map was called on
    num_threads,   \* parallel_map: its num_threads argument
    output_vec,    \* parallel_map: the vector it fills and returns
    channels,      \* parallel_map: the two bounded channels, their queues and live senders
    threads,       \* parallel_map: where each spawned worker stands
    parent,        \* parallel_map: where the calling thread stands, with its loop index
    applied        \* parallel_map: how many times f was called on each index

deet_vars == <<breakpoints, inferior, children, session, p, log>>

proxy_vars == <<max_requests_per_minute, num_reqs_by_ip, lock, conns, tally>>

parallel_map_vars == <<input_vec, num_threads, output_vec, channels, threads, parent, applied>>

vars == <<deet_vars, backtrace_frame, dedup_frame, proxy_vars, parallel_map_vars>>

\* no call of parallel_map under way: an empty call that has returned
ParallelMapIdle ==
    /\ input_vec = <<>>
    /\ num_threads = 0
    /\ output_vec = <<>>
    /\ channels = [to_thread |-> <<>>, send_to_thread |-> 0,
                  to_parent |-> <<>>, send_to_parent |-> 0]
    /\ threads = <<>>
    /\ parent = [pc |-> "returned", i |-> 0]
    /\ applied = <<>>

----------------------------------------------------------------------------
(* Bounds and program constants *)

MaxSpawns == 2          \* children the session spawns in one behaviour

TRAP == 204             \* 0xcc, the byte write_breakpoints patches in
WordSize == 8           \* size_of::<usize>()
ByteMax == 255          \* the 0xff mask of write_byte

(* An address past everything the traced program maps or has symbols for:  *)
(* it stands for every word whose value does not fit in three bytes,       *)
(* usize::MAX among them.                                                  *)
FarAddr == 16777216

\* Option: None, or Some(..) as a record with some = TRUE
None == [some |-> FALSE]
Some(v) == [some |-> TRUE, val |-> v]
NoSignal == "-"
SIGTRAP == "SIGTRAP"
SIGSEGV == "SIGSEGV"
SIGKILL == "SIGKILL"

(* The traced program's address space: two mapped words of code and two of *)
(* stack; every other word is unmapped and ptrace::read / ptrace::write    *)
(* fail on it.                                                             *)
CodeWords == {0, 8}
StackWords == {24, 32}
MappedWords == CodeWords \cup StackWords
ByteOffsets == 0 .. (WordSize - 1)

\* The word that holds the small number n: eight bytes, least significant first
WordOf(n) == [i \in ByteOffsets |-> IF i = 0 THEN n ELSE 0]

(* The stack: one frame at 24, its saved frame base (48, the caller's, not *)
(* mapped) at 24 and its return address (10) at 32.                        *)
StackImage == (24 :> WordOf(48)) @@ (32 :> WordOf(10))

(* The program image: the bytes in memory right after exec.  A word is its *)
(* eight bytes, least significant first.                                   *)
Image ==
    [w \in MappedWords |->
        IF w \in CodeWords THEN [i \in ByteOffsets |-> 16 + w + i] ELSE StackImage[w]]

(* The traced program: where its instructions start, the instructions     *)
(* that can follow each one (2 and 9 are one byte long), where a signal    *)
(* other than the trap can stop it (at two of its instructions, and at     *)
(* address 0 after a jump through a null pointer), and where it is stopped *)
(* when the exec trap is reported.                                         *)
CodeAddrs == {2, 3, 9, 10}
NextInstr == (2 :> {3}) @@ (3 :> {2, 9}) @@ (9 :> {10}) @@ (10 :> {2, 9})
SignalStopAddrs == {0, 3, 9}
EntryIps == {9}

\* %rbp of the traced program when it is stopped at each of these addresses
FrameBase == (0 :> 24) @@ (2 :> 24) @@ (3 :> 32) @@ (9 :> 48) @@ (10 :> 48)

----------------------------------------------------------------------------
(* 64-bit words as byte vectors, and the word arithmetic of write_byte *)

RECURSIVE BitOr(_, _)
BitOr(x, y) ==
    IF x = 0 THEN y
    ELSE IF y = 0 THEN x
    ELSE (IF (x % 2 = 1) \/ (y % 2 = 1) THEN 1 ELSE 0) + 2 * BitOr(x \div 2, y \div 2)

\* (word >> 8 * byte_offset) & 0xff
ShiftRightAndFF(word, byte_offset) == word[byte_offset] % (ByteMax + 1)

\* word & !(0xff << 8 * byte_offset)
MaskOutByte(word, byte_offset) ==
    [i \in ByteOffsets |-> IF i = byte_offset THEN 0 ELSE word[i]]

\* masked_word | ((val as u64) << 8 * byte_offset)
OrShifted(masked_word, val, byte_offset) ==
    [i \in ByteOffsets |->
        IF i = byte_offset THEN BitOr(masked_word[i], val) ELSE masked_word[i]]

\* addr & (-(size_of::<usize>() as isize) as usize): clears the low three bits
align_addr_to_word(addr) == addr - (addr % WordSize)

\* ptrace::read / ptrace::write succeed on a live child's mapped word only
Accessible(child, aligned_addr) == child.alive /\ aligned_addr \in MappedWords

\* The byte a live child's memory holds at addr
ByteAt(mem, addr) == mem[align_addr_to_word(addr)][addr - align_addr_to_word(addr)]

MappedAddrs == {w + i : w \in MappedWords, i \in ByteOffsets}

\* The addresses that hold the trap opcode
Armed(mem) == {a \in MappedAddrs : ByteAt(mem, a) = TRAP}

\* write_byte with the old byte left in the word under the new one (no mask)
write_byte_no_mask(child, addr, val) ==
    LET aligned_addr == align_addr_to_word(addr)
        byte_offset == addr - aligned_addr
    IN  IF ~Accessible(child, aligned_addr)
        THEN [ok |-> FALSE, orig_byte |-> 0, child |-> child]
        ELSE LET word == child.mem[aligned_addr]
                 orig_byte == ShiftRightAndFF(word, byte_offset)
                 updated_word == OrShifted(word, val, byte_offset)
             IN  [ok |-> TRUE, orig_byte |-> orig_byte,
                  child |-> [child EXCEPT !.mem[aligned_addr] = updated_word]]

\* write_byte patching the low byte of the word whatever the offset of addr
write_byte_low_byte(child, addr, val) ==
    LET aligned_addr == align_addr_to_word(addr)
        byte_offset == 0
    IN  IF ~Accessible(child, aligned_addr)
        THEN [ok |-> FALSE, orig_byte |-> 0, child |-> child]
        ELSE LET word == child.mem[aligned_addr]
                 orig_byte == ShiftRightAndFF(word, byte_offset)
                 masked_word == MaskOutByte(word, byte_offset)
                 updated_word == OrShifted(masked_word, val, byte_offset)
             IN  [ok |-> TRUE, orig_byte |-> orig_byte,
                  child |-> [child EXCEPT !.mem[aligned_addr] = updated_word]]

\* write_byte writing the shifted byte alone, the rest of the word zero
write_byte_clears_word(child, addr, val) ==
    LET aligned_addr == align_addr_to_word(addr)
        byte_offset == addr - aligned_addr
    IN  IF ~Accessible(child, aligned_addr)
        THEN [ok |-> FALSE, orig_byte |-> 0, child |-> child]
        ELSE LET word == child.mem[aligned_addr]
                 orig_byte == ShiftRightAndFF(word, byte_offset)
                 updated_word == OrShifted([i \in ByteOffsets |-> 0], val, byte_offset)
             IN  [ok |-> TRUE, orig_byte |-> orig_byte,
                  child |-> [child EXCEPT !.mem[aligned_addr] = updated_word]]

(* Inferior::write_byte: Ok(orig_byte) with the child's memory updated, or *)
(* Err with the memory untouched.                                          *)
write_byte(child, addr, val) ==
    LET aligned_addr == align_addr_to_word(addr)
        byte_offset == addr - aligned_addr
    IN  IF ~Accessible(child, aligned_addr)
        THEN [ok |-> FALSE, orig_byte |-> 0, child |-> child]
        ELSE LET word == child.mem[aligned_addr]
                 orig_byte == ShiftRightAndFF(word, byte_offset)
                 masked_word == MaskOutByte(word, byte_offset)
                 updated_word == OrShifted(masked_word, val, byte_offset)
             IN  [ok |-> TRUE, orig_byte |-> orig_byte,
                  child |-> [child EXCEPT !.mem[aligned_addr] = updated_word]]

----------------------------------------------------------------------------
(* Events of the log, wait statuses, child records *)

Ev(op, arg) == [op |-> op, arg |-> arg]

\* inferior::Status
Stopped(sig, ip) == [kind |-> "Stopped", sig |-> sig, ip |-> ip]
Exited == [kind |-> "Exited", sig |-> NoSignal, ip |-> 0]
Signaled(sig) == [kind |-> "Signaled", sig |-> sig, ip |-> 0]

\* A child that terminated and was reaped, or was never traced further
DeadChild == [alive |-> FALSE, rip |-> 0, mem |-> <<>>]

\* A child right after a successful spawn, stopped at the exec trap
FreshChild(entry) == [alive |-> TRUE, rip |-> entry, mem |-> Image]

EmptyMap == [a \in {} |-> 0]

Contains(seq, x) == \E i \in 1 .. Len(seq) : seq[i] = x

----------------------------------------------------------------------------
(* The traced program and the OS: what a wait can report *)

(* The statuses waitpid can report after ptrace::step from the child's     *)
(* rip.  A trap byte at rip is executed as the trap instruction; any other *)
(* instruction completes (single-step trap at the next instruction),       *)
(* faults, or ends the process.                                            *)
StepStatuses(child) ==
    IF ByteAt(child.mem, child.rip) = TRAP
    THEN {Stopped(SIGTRAP, child.rip + 1)}
    ELSE {Stopped(SIGTRAP, ip) : ip \in NextInstr[child.rip]}
         \cup {Stopped(SIGSEGV, child.rip), Exited, Signaled(SIGKILL)}

(* The statuses waitpid can report after ptrace::cont: the program runs    *)
(* until it executes a trap byte, is stopped by another signal, or ends.   *)
ContStatuses(child) ==
    IF ByteAt(child.mem, child.rip) = TRAP
    THEN {Stopped(SIGTRAP, child.rip + 1)}
    ELSE {Stopped(SIGTRAP, a + 1) : a \in {c \in CodeAddrs : ByteAt(child.mem, c) = TRAP}}
         \cup {Stopped(SIGSEGV, ip) : ip \in SignalStopAddrs}
         \cup {Exited, Signaled(SIGSEGV)}

\* The child after the OS reported status st
ChildAfter(child, st) ==
    IF st.kind = "Stopped" THEN [child EXCEPT !.rip = st.ip] ELSE DeadChild

(* Inferior::wait after a resume request: Ok(status), or Err when waitpid  *)
(* or the getregs inside wait fails.  The child changed state either way:  *)
(* after an Err it is where one of the statuses would have put it.         *)
WaitOutcomes(child, statuses) ==
    {[ok |-> TRUE, status |-> st, child |-> ChildAfter(child, st)] : st \in statuses}
    \cup {[ok |-> FALSE, status |-> Exited, child |-> c] :
              c \in {ChildAfter(child, st) : st \in statuses}}

WaitEvent(w) ==
    IF ~w.ok THEN Ev("wait", <<"Err">>)
    ELSE IF w.status.kind = "Stopped" THEN Ev("wait", <<"Stopped", w.status.sig, w.status.ip>>)
    ELSE Ev("wait", <<w.status.kind>>)

\* The same for a caller that drops the ip of a stop (Status::Stopped(sig, _ip))
WaitEventNoIp(w) ==
    IF w.ok /\ w.status.kind = "Stopped" THEN Ev("wait", <<"Stopped", w.status.sig>>)
    ELSE WaitEvent(w)

----------------------------------------------------------------------------
(* Inferior: [pid, bp_map, child, log], the child being the OS's record *)

RECURSIVE write_breakpoints_from(_, _, _)
write_breakpoints_from(inf, bpts, k) ==
    IF k > Len(bpts) THEN [ok |-> TRUE, inf |-> inf]
    ELSE LET bpt == bpts[k] IN
        IF bpt \in DOMAIN inf.bp_map
        THEN write_breakpoints_from(
                [inf EXCEPT !.log = Append(@, Ev("println", <<"Breakpoint already set at this location.">>))],
                bpts, k + 1)
        ELSE LET r == write_byte(inf.child, bpt, TRAP) IN
            IF r.ok
            THEN write_breakpoints_from(
                    [inf EXCEPT !.child = r.child,
                                !.bp_map = (bpt :> r.orig_byte) @@ @,
                                !.log = Append(@, Ev("write_byte", <<bpt>>))],
                    bpts, k + 1)
            ELSE [ok |-> FALSE,
                  inf |-> [inf EXCEPT !.log =
                      Append(Append(@, Ev("write_byte", <<bpt>>)),
                             Ev("println", <<"Unable to set breakpoint at", bpt>>))]]

\* write_breakpoints patching every address, recorded in bp_map or not
RECURSIVE write_breakpoints_from_no_contains_key(_, _, _)
write_breakpoints_from_no_contains_key(inf, bpts, k) ==
    IF k > Len(bpts) THEN [ok |-> TRUE, inf |-> inf]
    ELSE LET bpt == bpts[k]
             r == write_byte(inf.child, bpt, TRAP)
         IN  IF r.ok
             THEN write_breakpoints_from_no_contains_key(
                     [inf EXCEPT !.child = r.child,
                                 !.bp_map = (bpt :> r.orig_byte) @@ @,
                                 !.log = Append(@, Ev("write_byte", <<bpt>>))],
                     bpts, k + 1)
             ELSE [ok |-> FALSE,
                   inf |-> [inf EXCEPT !.log =
                       Append(Append(@, Ev("write_byte", <<bpt>>)),
                              Ev("println", <<"Unable to set breakpoint at", bpt>>))]]

write_breakpoints_no_contains_key(inf, bpts) ==
    write_breakpoints_from_no_contains_key(inf, bpts, 1)

\* write_breakpoints going on with the rest of the batch after a patch failed
RECURSIVE write_breakpoints_from_keep_going(_, _, _, _)
write_breakpoints_from_keep_going(inf, bpts, k, ok) ==
    IF k > Len(bpts) THEN [ok |-> ok, inf |-> inf]
    ELSE LET bpt == bpts[k] IN
        IF bpt \in DOMAIN inf.bp_map
        THEN write_breakpoints_from_keep_going(
                [inf EXCEPT !.log = Append(@, Ev("println", <<"Breakpoint already set at this location.">>))],
                bpts, k + 1, ok)
        ELSE LET r == write_byte(inf.child, bpt, TRAP) IN
            IF r.ok
            THEN write_breakpoints_from_keep_going(
                    [inf EXCEPT !.child = r.child,
                                !.bp_map = (bpt :> r.orig_byte) @@ @,
                                !.log = Append(@, Ev("write_byte", <<bpt>>))],
                    bpts, k + 1, ok)
            ELSE write_breakpoints_from_keep_going(
                    [inf EXCEPT !.log =
                        Append(Append(@, Ev("write_byte", <<bpt>>)),
                               Ev("println", <<"Unable to set breakpoint at", bpt>>))],
                    bpts, k + 1, FALSE)

write_breakpoints_keep_going(inf, bpts) ==
    write_breakpoints_from_keep_going(inf, bpts, 1, TRUE)

\* write_breakpoints recording the byte the process holds after the patch
RECURSIVE write_breakpoints_from_record_after(_, _, _)
write_breakpoints_from_record_after(inf, bpts, k) ==
    IF k > Len(bpts) THEN [ok |-> TRUE, inf |-> inf]
    ELSE LET bpt == bpts[k] IN
        IF bpt \in DOMAIN inf.bp_map
        THEN write_breakpoints_from_record_after(
                [inf EXCEPT !.log = Append(@, Ev("println", <<"Breakpoint already set at this location.">>))],
                bpts, k + 1)
        ELSE LET r == write_byte(inf.child, bpt, TRAP) IN
            IF r.ok
            THEN write_breakpoints_from_record_after(
                    [inf EXCEPT !.child = r.child,
                                !.bp_map = (bpt :> ByteAt(r.child.mem, bpt)) @@ @,
                                !.log = Append(@, Ev("write_byte", <<bpt>>))],
                    bpts, k + 1)
            ELSE [ok |-> FALSE,
                  inf |-> [inf EXCEPT !.log =
                      Append(Append(@, Ev("write_byte", <<bpt>>)),
                             Ev("println", <<"Unable to set breakpoint at", bpt>>))]]

write_breakpoints_record_after(inf, bpts) ==
    write_breakpoints_from_record_after(inf, bpts, 1)

\* Inferior::write_breakpoints
write_breakpoints(inf, bpts) == write_breakpoints_from(inf, bpts, 1)

----------------------------------------------------------------------------
(* Debugger: D = [breakpoints, inferior, children, session, log] *)

Log(D, e) == [D EXCEPT !.log = Append(@, e)]

\* A panic unwinds out of Debugger::run: the session is over
Panic(D, msg) == [D EXCEPT !.session = "panicked", !.log = Append(@, Ev("panic", <<msg>>))]

\* The session as the record the handlers work on, its log emptied
Cur ==
    [breakpoints |-> breakpoints, inferior |-> inferior, children |-> children,
     session |-> session, p |-> p, log |-> <<>>]

(* The session as a build of the debugger runs it: with overflow checks    *)
(* (a debug build) or without (a release build).                           *)
Built(D, overflow_checks) == D @@ [overflow_checks |-> overflow_checks]

(* The builds to tell apart for what a wait returned: both where ip - 1    *)
(* overflows, one where it does not (they behave alike).                   *)
OverflowChecks(w) ==
    IF w.ok /\ w.status.kind = "Stopped" /\ w.status.ip = 0 THEN BOOLEAN ELSE {FALSE}

Commit(D) ==
    /\ breakpoints' = D.breakpoints
    /\ inferior' = D.inferior
    /\ children' = D.children
    /\ session' = D.session
    /\ p' = D.p
    /\ log' = D.log
    /\ UNCHANGED <<backtrace_frame, dedup_frame, proxy_vars, parallel_map_vars>>

\* The Inferior held by the session together with its child and the log
InfOf(D) ==
    [pid |-> D.inferior.pid, bp_map |-> D.inferior.bp_map,
     child |-> D.children[D.inferior.pid], log |-> D.log]

\* The session's view of an Inferior: the child itself belongs to the OS
Handle(inf) == [some |-> TRUE, pid |-> inf.pid, bp_map |-> inf.bp_map]

CurChild(D) == D.children[D.inferior.pid]

SetChild(D, child) == [D EXCEPT !.children[D.inferior.pid] = child]

\* restore_and_rewind with the write to regs.rip left out
restore_without_rewind(D, break_addr) ==
    IF break_addr \notin DOMAIN D.inferior.bp_map
    THEN Panic(D, "bp_map.get(&break_addr).unwrap() on None")
    ELSE LET r == write_byte(CurChild(D), break_addr, D.inferior.bp_map[break_addr])
             D1 == Log(D, Ev("write_byte", <<break_addr>>))
         IN  IF ~r.ok
             THEN Panic(D1, "write_byte(..).unwrap() on Err")
             ELSE Log(SetChild(D1, r.child), Ev("getregs", <<>>))

(* Debugger::handle_stop, lines 163-167: put the saved byte back at        *)
(* break_addr and rewind %rip to it.                                       *)
restore_and_rewind(D, break_addr) ==
    IF break_addr \notin DOMAIN D.inferior.bp_map
    THEN Panic(D, "bp_map.get(&break_addr).unwrap() on None")
    ELSE LET r == write_byte(CurChild(D), break_addr, D.inferior.bp_map[break_addr])
             D1 == Log(D, Ev("write_byte", <<break_addr>>))
         IN  IF ~r.ok
             THEN Panic(D1, "write_byte(..).unwrap() on Err")
             ELSE Log(Log(SetChild(D1, [r.child EXCEPT !.rip = break_addr]),
                          Ev("getregs", <<>>)),
                      Ev("setregs", <<break_addr>>))

(* Debugger::handle_stop.  The echo of the source line (lines 171-188) is  *)
(* display only and is left out.  ip - 1 on the usize ip = 0 overflows: a  *)
(* build with overflow checks panics there, a build without them wraps to  *)
(* usize::MAX.                                                             *)
handle_stop(D, status) ==
    IF status.kind = "Stopped" THEN
        LET ip == status.ip
            sig == status.sig
            break_addr == IF ip = 0 THEN FarAddr ELSE ip - 1
        IN  IF ip = 0 /\ D.overflow_checks
            THEN Panic(D, "attempt to subtract with overflow")
            ELSE IF Contains(D.breakpoints, break_addr)
            THEN restore_and_rewind(
                    Log(D, Ev("println", <<"Program stopped at breakpoint", break_addr>>)),
                    break_addr)
            ELSE Log(D, Ev("println", <<"Program stopped (signal)", sig>>))
    ELSE IF status.kind = "Exited"
    THEN [Log(D, Ev("println", <<"Exited with status">>)) EXCEPT !.inferior = None]
    ELSE [Log(D, Ev("println", <<"Terminated due to signal", status.sig>>)) EXCEPT !.inferior = None]

\* Debugger::resume, lines 144-148: the wait after the continue
after_cont_wait(D, w) ==
    LET D1 == Log(SetChild(D, w.child), WaitEvent(w)) IN
    IF w.ok THEN handle_stop(D1, w.status)
    ELSE Log(D1, Ev("println", <<"Error resuming process.">>))

(* Debugger::resume, lines 140-148: continue, wait, handle the stop.  D is *)
(* the session as the first half of resume left it; this ends the command. *)
resume_cont(D) ==
    IF D.session = "panicked" THEN Commit(D)
    ELSE IF D.inferior = None
    THEN Commit(Panic(D, "self.inferior.as_mut().unwrap() on None"))
    ELSE IF ~CurChild(D).alive
    THEN Commit(Panic(Log(D, Ev("cont", <<>>)), "ptrace::cont(..).unwrap() on Err"))
    ELSE \E w \in WaitOutcomes(CurChild(D), ContStatuses(CurChild(D))) :
            \E overflow_checks \in OverflowChecks(w) :
                Commit(after_cont_wait(
                    Built(Log(D, Ev("cont", <<Armed(CurChild(D).mem)>>)), overflow_checks), w))

\* after_step_wait with every stop taken for the single-step trap
after_step_wait_any_signal(D, ip, w) ==
    LET D1 == Log(SetChild(D, w.child), WaitEventNoIp(w)) IN
    IF ~w.ok THEN D1
    ELSE IF w.status.kind = "Stopped"
    THEN LET r == write_byte(w.child, ip, TRAP)
             D2 == Log(D1, Ev("write_byte", <<ip>>))
         IN  IF r.ok THEN SetChild(D2, r.child)
             ELSE Panic(D2, "write_byte(ip, 0xcc).unwrap() on Err")
    ELSE handle_stop(D1, w.status)

\* resume re-arming the breakpoint right after the step, without the wait
after_step_no_wait(D, ip, w) ==
    LET r == write_byte(CurChild(D), ip, TRAP)
        D2 == Log(D, Ev("write_byte", <<ip>>))
    IN  IF r.ok THEN SetChild(D2, r.child)
        ELSE Panic(D2, "write_byte(ip, 0xcc).unwrap() on Err")

(* Debugger::resume, lines 123-136: the wait after the single-step from ip *)
(* and what the match on its result does to the session.                   *)
after_step_wait(D, ip, w) ==
    LET D1 == Log(SetChild(D, w.child), WaitEventNoIp(w)) IN
    IF ~w.ok THEN D1
    ELSE IF w.status.kind = "Stopped"
    THEN IF w.status.sig = SIGTRAP
         THEN LET r == write_byte(w.child, ip, TRAP)
                  D2 == Log(D1, Ev("write_byte", <<ip>>))
              IN  IF r.ok THEN SetChild(D2, r.child)
                  ELSE Panic(D2, "write_byte(ip, 0xcc).unwrap() on Err")
         ELSE Panic(D1, "Stopped after ptrace::step due to signal other than SIGTRAP.")
    ELSE handle_stop(D1, w.status)

(* Debugger::resume: the step over a breakpoint at the current ip, then    *)
(* the continue.  It ends the command it is called from.                   *)
resume(D) ==
    LET child == CurChild(D)
        D1 == Log(D, Ev("getregs", <<>>))
    IN  IF ~child.alive
        THEN Commit(Panic(D1, "ptrace::getregs(pid).unwrap() on Err"))
        ELSE LET ip == child.rip IN
             IF Contains(D.breakpoints, ip)
             THEN \E w \in WaitOutcomes(child, StepStatuses(child)) :
                     resume_cont(after_step_wait(
                         Log(D1, Ev("step", <<ip, ByteAt(child.mem, ip)>>)), ip, w))
             ELSE resume_cont(D1)

----------------------------------------------------------------------------
(* Launching and killing *)

\* What the first wait of Inferior::new can report for a child spawned at entry
LaunchStatuses(entry) ==
    {Stopped(SIGTRAP, entry), Stopped(SIGSEGV, entry), Exited, Signaled(SIGKILL)}

(* What the OS can answer to Inferior::new: the spawn fails, or it gives a *)
(* child and the first wait returns.  MaxSpawns caps the children of one   *)
(* behaviour: past it every spawn fails.                                   *)
NewOutcomes(D) ==
    {[spawned |-> FALSE, w |-> None]}
    \cup (IF Len(D.children) < MaxSpawns
          THEN {[spawned |-> TRUE, w |-> w] :
                   w \in UNION {WaitOutcomes(FreshChild(e), LaunchStatuses(e)) : e \in EntryIps}}
          ELSE {})

\* Inferior::new taking any stop at the first wait for the exec trap
Inferior_new_any_stop(D, o) ==
    IF ~o.spawned
    THEN [inf |-> None, D |-> Log(D, Ev("spawn", <<"Err">>))]
    ELSE LET pid == Len(D.children) + 1
             D1 == [D EXCEPT !.children = Append(@, o.w.child),
                             !.log = Append(Append(@, Ev("spawn", <<"Ok", pid>>)), WaitEventNoIp(o.w))]
         IN  IF o.w.ok /\ o.w.status.kind = "Stopped"
             THEN LET r == write_breakpoints(
                              [pid |-> pid, bp_map |-> EmptyMap, child |-> o.w.child, log |-> D1.log],
                              D1.breakpoints)
                      lg == IF r.ok THEN r.inf.log
                            ELSE Append(r.inf.log,
                                   Ev("println", <<"Remove invalid breakpoint by quitting deet and reopening.">>))
                  IN  [inf |-> Handle(r.inf),
                       D |-> [D1 EXCEPT !.children[pid] = r.inf.child, !.log = lg]]
             ELSE [inf |-> None, D |-> D1]

(* Inferior::new under outcome o: [inf, D], inf the new Inferior or None,  *)
(* D the session with the OS's children and the log brought up to date.    *)
Inferior_new(D, o) ==
    IF ~o.spawned
    THEN [inf |-> None, D |-> Log(D, Ev("spawn", <<"Err">>))]
    ELSE LET pid == Len(D.children) + 1
             D1 == [D EXCEPT !.children = Append(@, o.w.child),
                             !.log = Append(Append(@, Ev("spawn", <<"Ok", pid>>)), WaitEventNoIp(o.w))]
         IN  IF o.w.ok /\ o.w.status.kind = "Stopped" /\ o.w.status.sig = SIGTRAP
             THEN LET r == write_breakpoints(
                              [pid |-> pid, bp_map |-> EmptyMap, child |-> o.w.child, log |-> D1.log],
                              D1.breakpoints)
                      lg == IF r.ok THEN r.inf.log
                            ELSE Append(r.inf.log,
                                   Ev("println", <<"Remove invalid breakpoint by quitting deet and reopening.">>))
                  IN  [inf |-> Handle(r.inf),
                       D |-> [D1 EXCEPT !.children[pid] = r.inf.child, !.log = lg]]
             ELSE [inf |-> None, D |-> D1]

\* Inferior::kill on the session's inferior, with the caller's expect
kill(D) ==
    IF ~CurChild(D).alive
    THEN Panic(Log(D, Ev("kill", <<>>)), "self.child.kill().unwrap() on Err")
    ELSE Log(Log(SetChild(D, DeadChild), Ev("kill", <<>>)), Ev("wait", <<"Signaled", SIGKILL>>))

\* DebuggerCommand::Run
cmd_Run(D) ==
    LET D0 == IF D.inferior # None THEN kill(D) ELSE D IN
    IF D0.session = "panicked" THEN Commit(D0)
    ELSE LET D1 == Log(D0, Ev("println", <<"Starting program">>)) IN
         \E o \in NewOutcomes(D1) :
             LET n == Inferior_new(D1, o) IN
             IF n.inf # None
             THEN resume([n.D EXCEPT !.inferior = n.inf])
             ELSE Commit(Log(n.D, Ev("println", <<"Error starting subprocess.">>)))

\* DebuggerCommand::Continue
cmd_Continue(D) ==
    IF D.inferior = None
    THEN Commit(Log(D, Ev("println", <<"No stopped program to resume.">>)))
    ELSE resume(D)

FirstPrompt == "Quit anyway? (y or n) "
AgainPrompt == "Please type (y/n) "

(* DebuggerCommand::Quit up to its call of get_yes_no: with a process held  *)
(* the two messages are printed and get_yes_no starts with its first       *)
(* prompt; with none the session ends.                                     *)
cmd_Quit(D) ==
    IF D.inferior # None
    THEN LET D1 == Log(D, Ev("println", <<"A debugging session is active.">>))
             D2 == Log(D1, Ev("println", <<"Process will be killed.", D.inferior.pid>>))
         IN  [D2 EXCEPT !.session = "get_yes_no", !.p = FirstPrompt]
    ELSE [D EXCEPT !.session = "quit"]

\* DebuggerCommand::Quit, lines 82-85: what the arm does with get_yes_no's answer
after_get_yes_no(D, quit) ==
    LET D0 == [D EXCEPT !.p = ""] IN
    IF quit
    THEN LET D1 == kill(D0) IN
         IF D1.session = "panicked" THEN D1 ELSE [D1 EXCEPT !.session = "quit"]
    ELSE [D0 EXCEPT !.session = "prompt"]

\* What readline can return: a line, as its whitespace separated tokens, or an error
Line(tokens) == [ok |-> TRUE, tokens |-> tokens, err |-> ""]
ReadlineError(err) == [ok |-> FALSE, tokens |-> <<>>, err |-> err]

YesTokens == {"y", "yes", "Y", "Yes"}
NoTokens == {"n", "no", "N", "No"}

\* get_yes_no taking every answer that is not a yes for a no
get_yes_no_default_no(D, r) ==
    LET D1 == Log(D, Ev("readline", <<r>>)) IN
    IF ~r.ok
    THEN IF r.err \in {"Interrupted", "Eof"}
         THEN [D1 EXCEPT !.p = AgainPrompt]
         ELSE Panic(D1, "Unexpected I/O error")
    ELSE LET D2 == [D1 EXCEPT !.p = AgainPrompt] IN
         IF r.tokens = <<>> THEN D2
         ELSE IF r.tokens[1] \in YesTokens THEN after_get_yes_no(D2, TRUE)
         ELSE after_get_yes_no(D2, FALSE)

(* Debugger::get_yes_no, one turn of its loop on the readline result r.    *)
(* The history file (lines 339-345) is left out.                           *)
get_yes_no(D, r) ==
    LET D1 == Log(D, Ev("readline", <<r>>)) IN
    IF ~r.ok
    THEN IF r.err \in {"Interrupted", "Eof"}
         THEN [D1 EXCEPT !.p = AgainPrompt]
         ELSE Panic(D1, "Unexpected I/O error")
    ELSE LET D2 == [D1 EXCEPT !.p = AgainPrompt] IN
         IF r.tokens = <<>> THEN D2
         ELSE IF r.tokens[1] \in YesTokens THEN after_get_yes_no(D2, TRUE)
         ELSE IF r.tokens[1] \in NoTokens THEN after_get_yes_no(D2, FALSE)
         ELSE Log(D2, Ev("println", <<"Unrecognized command.">>))

----------------------------------------------------------------------------
(* Break: parsing the spec (a tuple of characters) and setting the breakpoint *)

DigitValue ==
    ("0" :> 0) @@ ("1" :> 1) @@ ("2" :> 2) @@ ("3" :> 3) @@ ("4" :> 4) @@
    ("5" :> 5) @@ ("6" :> 6) @@ ("7" :> 7) @@ ("8" :> 8) @@ ("9" :> 9) @@
    ("a" :> 10) @@ ("b" :> 11) @@ ("c" :> 12) @@ ("d" :> 13) @@ ("e" :> 14) @@ ("f" :> 15) @@
    ("A" :> 10) @@ ("B" :> 11) @@ ("C" :> 12) @@ ("D" :> 13) @@ ("E" :> 14) @@ ("F" :> 15)

IsDigit(c, radix) == c \in DOMAIN DigitValue /\ DigitValue[c] < radix

RECURSIVE DigitsValue(_, _, _)
DigitsValue(digits, radix, acc) ==
    IF digits = <<>> THEN acc
    ELSE DigitsValue(Tail(digits), radix, acc * radix + DigitValue[Head(digits)])

(* usize::from_str_radix(s, radix).ok(): an optional '+', then one digit   *)
(* or more, all of the radix; None otherwise.  The specs drawn here are    *)
(* too short to overflow a usize.                                          *)
from_str_radix(str, radix) ==
    LET digits == IF str # <<>> /\ Head(str) = "+" THEN Tail(str) ELSE str IN
    IF digits # <<>> /\ \A i \in 1 .. Len(digits) : IsDigit(digits[i], radix)
    THEN Some(DigitsValue(digits, radix, 0))
    ELSE None

\* Debugger::parse_address
parse_address(addr) ==
    LET addr_without_0x ==
            IF Len(addr) >= 2 /\ addr[1] = "0" /\ addr[2] \in {"x", "X"}
            THEN SubSeq(addr, 3, Len(addr))
            ELSE addr
    IN  from_str_radix(addr_without_0x, 16)

(* The debug data of the target, as the lookups set_breakpoint uses:       *)
(* DwarfData::get_addr_for_line(None, line) and                            *)
(* DwarfData::get_addr_for_function(None, name).                           *)
LineTable == (5 :> 2)
FunctionTable == (<<"m", "a", "i", "n">> :> 9) @@ (<<"g">> :> 2)

get_addr_for_line(line) ==
    IF line \in DOMAIN LineTable THEN Some(LineTable[line]) ELSE None

get_addr_for_function(name) ==
    IF name \in DOMAIN FunctionTable THEN Some(FunctionTable[name]) ELSE None

\* resolve_breakpoint trying the spec as a function name when its line has no address
resolve_breakpoint_line_then_function(inp) ==
    IF inp # <<>> /\ Head(inp) = "*"
    THEN LET addr == parse_address(Tail(inp)) IN
         IF addr # None THEN [addr |-> addr, err |-> ""]
         ELSE [addr |-> None, err |-> "is not a well-formed address."]
    ELSE LET line == from_str_radix(inp, 10)
             by_line == IF line # None THEN get_addr_for_line(line.val) ELSE None
         IN  IF by_line # None THEN [addr |-> by_line, err |-> ""]
             ELSE LET addr == get_addr_for_function(inp) IN
                  IF addr # None THEN [addr |-> addr, err |-> ""]
                  ELSE [addr |-> None, err |-> "is not a valid function name."]

(* Debugger::set_breakpoint, lines 254-284: the address the spec resolves  *)
(* to, or None with the error printed.                                     *)
resolve_breakpoint(inp) ==
    IF inp # <<>> /\ Head(inp) = "*"
    THEN LET addr == parse_address(Tail(inp)) IN
         IF addr # None THEN [addr |-> addr, err |-> ""]
         ELSE [addr |-> None, err |-> "is not a well-formed address."]
    ELSE LET line == from_str_radix(inp, 10) IN
         IF line # None
         THEN LET addr == get_addr_for_line(line.val) IN
              IF addr # None THEN [addr |-> addr, err |-> ""]
              ELSE [addr |-> None, err |-> "is not a valid line number."]
         ELSE LET addr == get_addr_for_function(inp) IN
              IF addr # None THEN [addr |-> addr, err |-> ""]
              ELSE [addr |-> None, err |-> "is not a valid function name."]

\* set_breakpoint recording the address whether or not the install worked
set_breakpoint_always_push(D, inp) ==
    LET res == resolve_breakpoint(inp) IN
    IF res.addr = None THEN Log(D, Ev("println", <<"ERROR", res.err>>))
    ELSE LET breakpoint == res.addr.val IN
         IF Contains(D.breakpoints, breakpoint)
         THEN Log(D, Ev("println", <<"Breakpoint already set here", breakpoint>>))
         ELSE LET D1 == Log(D, Ev("println", <<"Setting breakpoint", Len(D.breakpoints), breakpoint>>)) IN
              IF D1.inferior # None
              THEN LET r == write_breakpoints(InfOf(D1), <<breakpoint>>)
                       D2 == [D1 EXCEPT !.inferior = Handle(r.inf),
                                        !.children[r.inf.pid] = r.inf.child,
                                        !.log = r.inf.log]
                   IN  [D2 EXCEPT !.breakpoints = Append(@, breakpoint)]
              ELSE [D1 EXCEPT !.breakpoints = Append(@, breakpoint)]

\* set_breakpoint going on with address 0 after the error of a spec it cannot resolve
set_breakpoint_unresolved_as_zero(D, inp) ==
    LET res == resolve_breakpoint(inp)
        D0 == IF res.addr = None THEN Log(D, Ev("println", <<"ERROR", res.err>>)) ELSE D
        breakpoint == IF res.addr = None THEN 0 ELSE res.addr.val
    IN  IF Contains(D0.breakpoints, breakpoint)
        THEN Log(D0, Ev("println", <<"Breakpoint already set here", breakpoint>>))
        ELSE LET D1 == Log(D0, Ev("println", <<"Setting breakpoint", Len(D0.breakpoints), breakpoint>>)) IN
             IF D1.inferior # None
             THEN LET r == write_breakpoints(InfOf(D1), <<breakpoint>>)
                      D2 == [D1 EXCEPT !.inferior = Handle(r.inf),
                                       !.children[r.inf.pid] = r.inf.child,
                                       !.log = r.inf.log]
                  IN  IF ~r.ok THEN D2
                      ELSE [D2 EXCEPT !.breakpoints = Append(@, breakpoint)]
             ELSE [D1 EXCEPT !.breakpoints = Append(@, breakpoint)]

\* set_breakpoint announcing the table's length after the push (a 1-based index)
set_breakpoint_one_based(D, inp) ==
    LET res == resolve_breakpoint(inp) IN
    IF res.addr = None THEN Log(D, Ev("println", <<"ERROR", res.err>>))
    ELSE LET breakpoint == res.addr.val IN
         IF Contains(D.breakpoints, breakpoint)
         THEN Log(D, Ev("println", <<"Breakpoint already set here", breakpoint>>))
         ELSE LET D1 == Log(D, Ev("println", <<"Setting breakpoint", Len(D.breakpoints) + 1, breakpoint>>)) IN
              IF D1.inferior # None
              THEN LET r == write_breakpoints(InfOf(D1), <<breakpoint>>)
                       D2 == [D1 EXCEPT !.inferior = Handle(r.inf),
                                        !.children[r.inf.pid] = r.inf.child,
                                        !.log = r.inf.log]
                   IN  IF ~r.ok THEN D2
                       ELSE [D2 EXCEPT !.breakpoints = Append(@, breakpoint)]
              ELSE [D1 EXCEPT !.breakpoints = Append(@, breakpoint)]

\* set_breakpoint with the test for an address already in the table left out
set_breakpoint_no_contains(D, inp) ==
    LET res == resolve_breakpoint(inp) IN
    IF res.addr = None THEN Log(D, Ev("println", <<"ERROR", res.err>>))
    ELSE LET breakpoint == res.addr.val
             D1 == Log(D, Ev("println", <<"Setting breakpoint", Len(D.breakpoints), breakpoint>>))
         IN  IF D1.inferior # None
             THEN LET r == write_breakpoints(InfOf(D1), <<breakpoint>>)
                      D2 == [D1 EXCEPT !.inferior = Handle(r.inf),
                                       !.children[r.inf.pid] = r.inf.child,
                                       !.log = r.inf.log]
                  IN  IF ~r.ok THEN D2
                      ELSE [D2 EXCEPT !.breakpoints = Append(@, breakpoint)]
             ELSE [D1 EXCEPT !.breakpoints = Append(@, breakpoint)]

\* Debugger::set_breakpoint
set_breakpoint(D, inp) ==
    LET res == resolve_breakpoint(inp) IN
    IF res.addr = None THEN Log(D, Ev("println", <<"ERROR", res.err>>))
    ELSE LET breakpoint == res.addr.val IN
         IF Contains(D.breakpoints, breakpoint)
         THEN Log(D, Ev("println", <<"Breakpoint already set here", breakpoint>>))
         ELSE LET D1 == Log(D, Ev("println", <<"Setting breakpoint", Len(D.breakpoints), breakpoint>>)) IN
              IF D1.inferior # None
              THEN LET r == write_breakpoints(InfOf(D1), <<breakpoint>>)
                       D2 == [D1 EXCEPT !.inferior = Handle(r.inf),
                                        !.children[r.inf.pid] = r.inf.child,
                                        !.log = r.inf.log]
                   IN  IF ~r.ok THEN D2
                       ELSE [D2 EXCEPT !.breakpoints = Append(@, breakpoint)]
              ELSE [D1 EXCEPT !.breakpoints = Append(@, breakpoint)]

----------------------------------------------------------------------------
(* Backtrace *)

(* The debug data of the target, as the lookups backtrace uses:            *)
(* DwarfData::get_function_from_addr and DwarfData::get_line_from_addr.    *)
FunctionAt == (2 :> "g") @@ (3 :> "g") @@ (9 :> "main") @@ (10 :> "main")
LineAt == (2 :> "5") @@ (9 :> "8")

\* Debugger::get_func_and_line
get_func_and_line(ip) ==
    [function |-> IF ip \in DOMAIN FunctionAt THEN FunctionAt[ip] ELSE "[untraceable function]",
     line |-> IF ip \in DOMAIN LineAt THEN LineAt[ip] ELSE "[unknown location]"]

\* The value of a word whose sign bit is clear, as a usize
WordValue(word) ==
    IF \A i \in 3 .. (WordSize - 1) : word[i] = 0
    THEN word[0] + 256 * word[1] + 65536 * word[2]
    ELSE FarAddr

(* ptrace::read(pid, addr): the eight bytes from addr on, or Err when the   *)
(* child is gone or one of them is not mapped.                             *)
ptrace_read(child, addr) ==
    IF child.alive /\ \A i \in ByteOffsets : (addr + i) \in MappedAddrs
    THEN [ok |-> TRUE, word |-> [i \in ByteOffsets |-> ByteAt(child.mem, addr + i)]]
    ELSE [ok |-> FALSE, word |-> WordOf(0)]

(* Debugger::backtrace, the loop of lines 211-233 from frame stack_idx on.  *)
(* val.try_into().unwrap() panics on a word with its sign bit set.         *)
RECURSIVE backtrace_loop(_, _, _, _, _)
backtrace_loop(D, child, ip, bp, stack_idx) ==
    LET fl == get_func_and_line(ip)
        D1 == Log(D, Ev("println", <<"#", stack_idx, ip, fl.function, fl.line>>))
    IN  IF fl.function = "main" THEN D1
        ELSE LET r1 == ptrace_read(child, bp + 8)
                 D2 == Log(D1, Ev("read", <<bp + 8>>))
             IN  IF ~r1.ok
                 THEN Log(D2, Ev("println", <<"ERROR: Unable to complete backtrace.">>))
                 ELSE IF r1.word[WordSize - 1] >= 128
                 THEN Panic(D2, "val.try_into().unwrap() on Err")
                 ELSE LET r2 == ptrace_read(child, bp)
                          D3 == Log(D2, Ev("read", <<bp>>))
                      IN  IF ~r2.ok
                          THEN Log(D3, Ev("println", <<"ERROR: Unable to complete backtrace.">>))
                          ELSE IF r2.word[WordSize - 1] >= 128
                          THEN Panic(D3, "val.try_into().unwrap() on Err")
                          ELSE backtrace_loop(D3, child, WordValue(r1.word),
                                              WordValue(r2.word), stack_idx + 1)

MaxFrames == 6          \* the highest frame index the model counts to

\* No call of backtrace in progress
NoWalk == [pc |-> "idle", ip |-> 0, bp |-> 0, stack_idx |-> 0]

(* Debugger::backtrace, lines 204-210: the registers read, the walk about  *)
(* to print frame 0.  [f, log]: the locals and what was requested.         *)
backtrace_enter(child) ==
    IF ~child.alive
    THEN [f |-> [NoWalk EXCEPT !.pc = "panicked"],
          log |-> <<Ev("getregs", <<>>), Ev("panic", <<"ptrace::getregs(pid).unwrap() on Err">>)>>]
    ELSE [f |-> [pc |-> "loop", ip |-> child.rip, bp |-> FrameBase[child.rip], stack_idx |-> 0],
          log |-> <<Ev("getregs", <<>>)>>]

\* backtrace_step taking the next ip from the word at bp and the next bp from bp + 8
backtrace_step_swapped(f, child) ==
    LET fl == get_func_and_line(f.ip)
        out1 == <<Ev("println", <<"#", f.stack_idx, f.ip, fl.function, fl.line>>)>>
    IN  IF fl.function = "main" THEN [f |-> [f EXCEPT !.pc = "done"], log |-> out1]
        ELSE LET r1 == ptrace_read(child, f.bp)
                 out2 == Append(out1, Ev("read", <<f.bp>>))
             IN  IF ~r1.ok
                 THEN [f |-> [f EXCEPT !.pc = "done"],
                       log |-> Append(out2, Ev("println", <<"ERROR: Unable to complete backtrace.">>))]
                 ELSE IF r1.word[WordSize - 1] >= 128
                 THEN [f |-> [f EXCEPT !.pc = "panicked"],
                       log |-> Append(out2, Ev("panic", <<"val.try_into().unwrap() on Err">>))]
                 ELSE LET r2 == ptrace_read(child, f.bp + 8)
                          out3 == Append(out2, Ev("read", <<f.bp + 8>>))
                      IN  IF ~r2.ok
                          THEN [f |-> [f EXCEPT !.pc = "done"],
                                log |-> Append(out3, Ev("println", <<"ERROR: Unable to complete backtrace.">>))]
                          ELSE IF r2.word[WordSize - 1] >= 128
                          THEN [f |-> [f EXCEPT !.pc = "panicked"],
                                log |-> Append(out3, Ev("panic", <<"val.try_into().unwrap() on Err">>))]
                          ELSE [f |-> [f EXCEPT !.ip = WordValue(r1.word),
                                                !.bp = WordValue(r2.word),
                                                !.stack_idx = (@ + 1) % (MaxFrames + 1)],
                                log |-> out3]

\* backtrace_step going on with frame base 0 after a read that failed, no marker
backtrace_step_read_or_zero(f, child) ==
    LET fl == get_func_and_line(f.ip)
        out1 == <<Ev("println", <<"#", f.stack_idx, f.ip, fl.function, fl.line>>)>>
    IN  IF fl.function = "main" THEN [f |-> [f EXCEPT !.pc = "done"], log |-> out1]
        ELSE LET r1 == ptrace_read(child, f.bp + 8)
                 out2 == Append(out1, Ev("read", <<f.bp + 8>>))
             IN  IF r1.word[WordSize - 1] >= 128
                 THEN [f |-> [f EXCEPT !.pc = "panicked"],
                       log |-> Append(out2, Ev("panic", <<"val.try_into().unwrap() on Err">>))]
                 ELSE LET r2 == ptrace_read(child, f.bp)
                          out3 == Append(out2, Ev("read", <<f.bp>>))
                      IN  IF r2.word[WordSize - 1] >= 128
                          THEN [f |-> [f EXCEPT !.pc = "panicked"],
                                log |-> Append(out3, Ev("panic", <<"val.try_into().unwrap() on Err">>))]
                          ELSE [f |-> [f EXCEPT !.ip = WordValue(r1.word),
                                                !.bp = WordValue(r2.word),
                                                !.stack_idx = (@ + 1) % (MaxFrames + 1)],
                                log |-> out3]

(* Debugger::backtrace, one turn of the loop of lines 211-233 on the       *)
(* locals f.  stack_idx is a usize; the model counts it modulo             *)
(* MaxFrames + 1, so that a walk without end is a cycle of states.         *)
backtrace_step(f, child) ==
    LET fl == get_func_and_line(f.ip)
        out1 == <<Ev("println", <<"#", f.stack_idx, f.ip, fl.function, fl.line>>)>>
    IN  IF fl.function = "main" THEN [f |-> [f EXCEPT !.pc = "done"], log |-> out1]
        ELSE LET r1 == ptrace_read(child, f.bp + 8)
                 out2 == Append(out1, Ev("read", <<f.bp + 8>>))
             IN  IF ~r1.ok
                 THEN [f |-> [f EXCEPT !.pc = "done"],
                       log |-> Append(out2, Ev("println", <<"ERROR: Unable to complete backtrace.">>))]
                 ELSE IF r1.word[WordSize - 1] >= 128
                 THEN [f |-> [f EXCEPT !.pc = "panicked"],
                       log |-> Append(out2, Ev("panic", <<"val.try_into().unwrap() on Err">>))]
                 ELSE LET r2 == ptrace_read(child, f.bp)
                          out3 == Append(out2, Ev("read", <<f.bp>>))
                      IN  IF ~r2.ok
                          THEN [f |-> [f EXCEPT !.pc = "done"],
                                log |-> Append(out3, Ev("println", <<"ERROR: Unable to complete backtrace.">>))]
                          ELSE IF r2.word[WordSize - 1] >= 128
                          THEN [f |-> [f EXCEPT !.pc = "panicked"],
                                log |-> Append(out3, Ev("panic", <<"val.try_into().unwrap() on Err">>))]
                          ELSE [f |-> [f EXCEPT !.ip = WordValue(r1.word),
                                                !.bp = WordValue(r2.word),
                                                !.stack_idx = (@ + 1) % (MaxFrames + 1)],
                                log |-> out3]

\* backtrace giving up the process when it cannot complete the walk
backtrace_discarding(D) ==
    LET child == CurChild(D)
        D1 == Log(D, Ev("getregs", <<>>))
    IN  IF ~child.alive
        THEN Panic(D1, "ptrace::getregs(pid).unwrap() on Err")
        ELSE LET D2 == backtrace_loop(D1, child, child.rip, FrameBase[child.rip], 0) IN
             IF D2.log[Len(D2.log)] = Ev("println", <<"ERROR: Unable to complete backtrace.">>)
             THEN [D2 EXCEPT !.inferior = None]
             ELSE D2

\* Debugger::backtrace
backtrace(D) ==
    LET child == CurChild(D)
        D1 == Log(D, Ev("getregs", <<>>))
    IN  IF ~child.alive
        THEN Panic(D1, "ptrace::getregs(pid).unwrap() on Err")
        ELSE backtrace_loop(D1, child, child.rip, FrameBase[child.rip], 0)

\* cmd_Backtrace that says nothing when there is no process
cmd_Backtrace_silent(D) ==
    IF D.inferior = None THEN D ELSE backtrace(D)

\* DebuggerCommand::Backtrace
cmd_Backtrace(D) ==
    IF D.inferior = None
    THEN Log(D, Ev("println", <<"No program is running.">>))
    ELSE backtrace(D)

----------------------------------------------------------------------------
(* What the user types *)

\* The lines and errors readline returns inside get_yes_no
ReadlineResults ==
    {Line(<<>>), Line(<<"y">>), Line(<<"Yes">>), Line(<<"n">>), Line(<<"No", "thanks">>),
     Line(<<"q">>), ReadlineError("Interrupted"), ReadlineError("Eof"), ReadlineError("Io")}

\* The specs the user types after "break"
BreakSpecs ==
    {<<"*", "0", "x", "2">>, <<"*", "9">>, <<"*", "1", "0">>, <<"*", "z">>,
     <<"5">>, <<"7">>, <<"m", "a", "i", "n">>, <<"f">>, <<"0", "x", "2">>}

----------------------------------------------------------------------------
(* part-2-warmup: dedup(v), one loop iteration per step *)

MaxLen == 4             \* the longest vector dedup is called on
Values == {0, 1, 2}     \* the i32 values its elements are drawn from

RECURSIVE SeqsUpTo(_)
SeqsUpTo(n) ==
    IF n = 0 THEN {<<>>}
    ELSE SeqsUpTo(n - 1) \cup {Append(sq, x) : sq \in {t \in SeqsUpTo(n - 1) : Len(t) = n - 1}, x \in Values}

\* No call of dedup in progress
NoCall == [pc |-> "idle", input |-> <<>>, v |-> <<>>, nums |-> {}, to_remove |-> <<>>, k |-> 0]

(* dedup called on v: lines 27-28.  k counts the elements the first loop   *)
(* has visited; input keeps the vector as it was passed in.                *)
dedup_enter(v) ==
    [pc |-> "scan", input |-> v, v |-> v, nums |-> {}, to_remove |-> <<>>, k |-> 0]

\* Vec::remove(index): panics when index is out of bounds
Vec_remove(v, index) ==
    IF index >= Len(v) THEN [ok |-> FALSE, v |-> v]
    ELSE [ok |-> TRUE, v |-> SubSeq(v, 1, index) \o SubSeq(v, index + 2, Len(v))]

(* dedup, lines 29-35: one iteration of the first loop, on element k       *)
(* (0-based); past the last element the second loop starts, k counting the *)
(* entries of to_remove still to visit.                                    *)
dedup_scan(f) ==
    IF f.k = Len(f.v)
    THEN [f EXCEPT !.pc = "remove", !.k = Len(f.to_remove)]
    ELSE LET i == f.k
             item == f.v[i + 1]
         IN  IF item \notin f.nums
             THEN [f EXCEPT !.nums = @ \cup {item}, !.k = i + 1]
             ELSE [f EXCEPT !.to_remove = Append(@, i), !.k = i + 1]

\* dedup_remove visiting to_remove from its first entry to its last
dedup_remove_forward(f) ==
    IF f.k = 0 THEN [f EXCEPT !.pc = "done"]
    ELSE LET i == Len(f.to_remove) - f.k
             r == Vec_remove(f.v, f.to_remove[i + 1])
         IN  IF r.ok THEN [f EXCEPT !.v = r.v, !.k = @ - 1]
             ELSE [f EXCEPT !.pc = "panicked"]

(* dedup, lines 36-38: one iteration of the second loop, which visits      *)
(* to_remove from its last entry to its first.                             *)
dedup_remove(f) ==
    IF f.k = 0 THEN [f EXCEPT !.pc = "done"]
    ELSE LET i == f.k - 1
             r == Vec_remove(f.v, f.to_remove[i + 1])
         IN  IF r.ok THEN [f EXCEPT !.v = r.v, !.k = i]
             ELSE [f EXCEPT !.pc = "panicked"]

----------------------------------------------------------------------------
(* balancebeam: the per-IP rate limit of handle_connection and the task    *)
(* that clears the counts every minute                                     *)

MaxRequests == 4        \* requests the clients send in one behaviour
MaxResets == 2          \* times the counts are cleared in one behaviour

Limits == {0, 1, 2}     \* the values of --max-requests-per-minute
Conns == {1, 2, 3}      \* the connections accepted; two share a client IP
IPs == {"a", "b"}
client_ip == (1 :> "a") @@ (2 :> "a") @@ (3 :> "b")

ZeroTally ==
    [admitted |-> [ip \in IPs |-> 0], rejected |-> [ip \in IPs |-> 0],
     sent_429 |-> [ip \in IPs |-> 0], forwarded |-> [ip \in IPs |-> 0]]

\* handle_connection's rate limit testing the count before it adds the request
rate_limit_check_first(num_reqs, max_reqs, ip) ==
    LET inserted == IF ip \in DOMAIN num_reqs THEN num_reqs ELSE (ip :> 0) @@ num_reqs
        num == inserted[ip] + 1
    IN  [num_reqs_by_ip |-> [inserted EXCEPT ![ip] = num],
         reject |-> inserted[ip] > max_reqs /\ max_reqs > 0]

(* handle_connection, lines 247-259, under the write guard: count the      *)
(* request of client ip, and reject it when the count passed the limit.    *)
rate_limit(num_reqs, max_reqs, ip) ==
    LET inserted == IF ip \in DOMAIN num_reqs THEN num_reqs ELSE (ip :> 0) @@ num_reqs
        num == inserted[ip] + 1
    IN  [num_reqs_by_ip |-> [inserted EXCEPT ![ip] = num],
         reject |-> num > max_reqs /\ max_reqs > 0]

----------------------------------------------------------------------------
(* The state machine *)

\* Debugger::new
DeetInit ==
    /\ breakpoints = <<>>
    /\ inferior = None
    /\ children = <<>>
    /\ session = "prompt"
    /\ p = ""
    /\ log = <<>>

\* balancebeam not started
ProxyIdle ==
    /\ max_requests_per_minute = 0
    /\ num_reqs_by_ip = EmptyMap
    /\ lock = None
    /\ conns = [c \in Conns |-> "closed"]
    /\ tally = ZeroTally @@ [requests |-> 0, resets |-> 0]

Init ==
    /\ DeetInit
    /\ dedup_frame = NoCall
    /\ backtrace_frame = NoWalk
    /\ ParallelMapIdle
    /\ ProxyIdle

Run ==
    /\ session = "prompt"
    /\ cmd_Run(Cur)

Continue ==
    /\ session = "prompt"
    /\ cmd_Continue(Cur)

Break ==
    /\ session = "prompt"
    /\ \E inp \in BreakSpecs : Commit(set_breakpoint(Cur, inp))

Backtrace ==
    /\ session = "prompt"
    /\ Commit(cmd_Backtrace(Cur))

Quit ==
    /\ session = "prompt"
    /\ Commit(cmd_Quit(Cur))

\* One readline inside get_yes_no
YesNo ==
    /\ session = "get_yes_no"
    /\ \E r \in ReadlineResults : Commit(get_yes_no(Cur, r))

Next == Run \/ Continue \/ Backtrace \/ Break \/ Quit \/ YesNo

Spec == Init /\ [][Next]_vars

\* dedup: a call on any vector of up to MaxLen values
DedupInit ==
    /\ DeetInit
    /\ dedup_frame \in {dedup_enter(v) : v \in SeqsUpTo(MaxLen)}
    /\ backtrace_frame = NoWalk
    /\ ParallelMapIdle
    /\ ProxyIdle

Scan ==
    /\ dedup_frame.pc = "scan"
    /\ dedup_frame' = dedup_scan(dedup_frame)
    /\ UNCHANGED <<deet_vars, backtrace_frame, proxy_vars, parallel_map_vars>>

Remove ==
    /\ dedup_frame.pc = "remove"
    /\ dedup_frame' = dedup_remove(dedup_frame)
    /\ UNCHANGED <<deet_vars, backtrace_frame, proxy_vars, parallel_map_vars>>

DedupNext == Scan \/ Remove

DedupSpec == DedupInit /\ [][DedupNext]_vars

----------------------------------------------------------------------------
(* Debugger::backtrace a frame at a time, on a process stopped anywhere in *)
(* its code with any content in the two words of its stack.  Here log      *)
(* keeps what the last turn of the loop printed and read.                  *)

\* A word with its sign bit set: negative as the c_long ptrace::read returns
NegativeWord == [i \in ByteOffsets |-> IF i = WordSize - 1 THEN 128 ELSE 0]

(* What a word of the stack can hold: an address of g, an address of main, *)
(* the frame bases 24 (the stack's first word), 16 (the word before it,    *)
(* not mapped) and 48, zero, a negative number.                            *)
StackValues == {WordOf(n) : n \in {0, 3, 10, 16, 24, 48}} \cup {NegativeWord}

StackContents ==
    {[w \in MappedWords |-> IF w \in CodeWords THEN Image[w] ELSE st[w]] :
        st \in [StackWords -> StackValues]}

BacktraceInit ==
    /\ breakpoints = <<>>
    /\ \E rip \in CodeAddrs, mem \in StackContents, alive \in BOOLEAN :
          children = <<[alive |-> alive, rip |-> rip, mem |-> mem]>>
    /\ inferior = Handle([pid |-> 1, bp_map |-> EmptyMap])
    /\ session = "prompt"
    /\ p = ""
    /\ log = <<>>
    /\ backtrace_frame = NoWalk
    /\ ParallelMapIdle
    /\ dedup_frame = NoCall
    /\ ProxyIdle

\* Debugger::backtrace up to its loop
BacktraceEnter ==
    /\ backtrace_frame.pc = "idle"
    /\ LET r == backtrace_enter(children[inferior.pid]) IN
          /\ backtrace_frame' = r.f
          /\ log' = r.log
    /\ UNCHANGED <<breakpoints, inferior, children, session, p, dedup_frame, proxy_vars, parallel_map_vars>>

\* One turn of the loop of Debugger::backtrace
BacktraceStep ==
    /\ backtrace_frame.pc = "loop"
    /\ LET r == backtrace_step(backtrace_frame, children[inferior.pid]) IN
          /\ backtrace_frame' = r.f
          /\ log' = r.log
    /\ UNCHANGED <<breakpoints, inferior, children, session, p, dedup_frame, proxy_vars, parallel_map_vars>>

BacktraceNext == BacktraceEnter \/ BacktraceStep

BacktraceSpec == BacktraceInit /\ [][BacktraceNext]_vars

(* The debugger is one thread that runs the loop without a pause: a turn   *)
(* that can be taken is taken.                                             *)
BacktraceFairSpec == BacktraceSpec /\ WF_vars(BacktraceNext)

----------------------------------------------------------------------------
(* Inferior::write_byte on its own: up to MaxPatches calls on one traced   *)
(* process.  Here log keeps every call: its address, its value, whether it *)
(* returned Ok, the byte it returned, and the memory before the call.      *)

MaxPatches == 2         \* calls of write_byte in one behaviour

(* The addresses patched: every byte of the code word at 8, the last byte  *)
(* of the word before it, the first of the stack, and one that is not      *)
(* mapped.                                                                 *)
PatchAddrs == {7, 16, 24} \cup {8 + i : i \in ByteOffsets}

\* The bytes written: the trap opcode, 0x00, 0xff, and any byte a call returned
PatchValues == {0, TRAP, ByteMax}
ReturnedBytes == {log[i].arg[4] : i \in {j \in DOMAIN log : log[j].arg[3]}}

\* One process right after a launch, nothing patched: Inferior::new, lines 51-54
OneProcess ==
    /\ breakpoints = <<>>
    /\ \E e \in EntryIps : children = <<FreshChild(e)>>
    /\ inferior = Handle([pid |-> 1, bp_map |-> EmptyMap])
    /\ session = "prompt"
    /\ p = ""
    /\ log = <<>>
    /\ backtrace_frame = NoWalk
    /\ ParallelMapIdle
    /\ dedup_frame = NoCall
    /\ ProxyIdle

PatchInit == OneProcess

WriteByte ==
    /\ Len(log) < MaxPatches
    /\ \E addr \in PatchAddrs, val \in PatchValues \cup ReturnedBytes :
          LET child == children[inferior.pid]
              r == write_byte(child, addr, val)
          IN  /\ children' = [children EXCEPT ![inferior.pid] = r.child]
              /\ log' = Append(log, Ev("write_byte", <<addr, val, r.ok, r.orig_byte, child.mem>>))
    /\ UNCHANGED <<breakpoints, inferior, session, p, backtrace_frame, dedup_frame, proxy_vars, parallel_map_vars>>

PatchNext == WriteByte

PatchSpec == PatchInit /\ [][PatchNext]_vars

----------------------------------------------------------------------------
(* Inferior::write_breakpoints on its own: batch after batch on one traced *)
(* process.  Here log keeps the last call: first the batch, whether the    *)
(* call returned Ok, and bp_map as it was before; then what the call did.  *)

MaxBatch == 3           \* the longest batch of addresses

\* The addresses of the batches: two that are mapped and one that is not
InstallAddrs == {2, 9, 16}

RECURSIVE BatchesUpTo(_)
BatchesUpTo(n) ==
    IF n = 0 THEN {<<>>}
    ELSE BatchesUpTo(n - 1)
         \cup {Append(b, a) : b \in {t \in BatchesUpTo(n - 1) : Len(t) = n - 1}, a \in InstallAddrs}

Batches == BatchesUpTo(MaxBatch)

InstallInit == OneProcess

Install(bpts) ==
    LET r == write_breakpoints(
                 [pid |-> inferior.pid, bp_map |-> inferior.bp_map,
                  child |-> children[inferior.pid], log |-> <<>>],
                 bpts)
    IN  /\ inferior' = Handle(r.inf)
        /\ children' = [children EXCEPT ![inferior.pid] = r.inf.child]
        /\ log' = <<Ev("write_breakpoints", <<bpts, r.ok, inferior.bp_map>>)>> \o r.inf.log
        /\ UNCHANGED <<breakpoints, session, p, backtrace_frame, dedup_frame, proxy_vars, parallel_map_vars>>

WriteBreakpoints == \E bpts \in Batches : Install(bpts)

InstallNext == WriteBreakpoints

InstallSpec == InstallInit /\ [][InstallNext]_vars

(* balancebeam, main lines 99-106 and 130-138: the state configured with   *)
(* some limit, the counts empty, and one handle_connection task per        *)
(* connection.                                                             *)
RateInit ==
    /\ DeetInit
    /\ dedup_frame = NoCall
    /\ backtrace_frame = NoWalk
    /\ ParallelMapIdle
    /\ max_requests_per_minute \in Limits
    /\ num_reqs_by_ip = EmptyMap
    /\ lock = None
    /\ conns = [c \in Conns |-> "connect"]
    /\ tally = ZeroTally @@ [requests |-> 0, resets |-> 0]

(* handle_connection, lines 192-203: connect_to_upstream gives a stream,   *)
(* or fails and the client gets 502.  Which upstream is picked is left     *)
(* out.                                                                    *)
Connect(c) ==
    /\ conns[c] = "connect" /\ lock = None
    /\ \E ok \in BOOLEAN : conns' = [conns EXCEPT ![c] = IF ok THEN "read" ELSE "closed"]
    /\ UNCHANGED <<max_requests_per_minute, num_reqs_by_ip, lock, tally>>
    /\ UNCHANGED <<deet_vars, backtrace_frame, dedup_frame, parallel_map_vars>>

(* handle_connection, lines 212-237: read_from_stream returns a request,   *)
(* a request that does not parse (answered with an error, then continue),  *)
(* or the end of the connection.                                           *)
ReadRequest(c) ==
    /\ conns[c] = "read"
    /\ \/ /\ tally.requests < MaxRequests
          /\ \E parsed \in BOOLEAN :
                conns' = [conns EXCEPT ![c] = IF parsed THEN "limit" ELSE "read"]
          /\ tally' = [tally EXCEPT !.requests = @ + 1]
       \/ /\ conns' = [conns EXCEPT ![c] = "closed"]
          /\ tally' = tally
    /\ UNCHANGED <<max_requests_per_minute, num_reqs_by_ip, lock>>
    /\ UNCHANGED <<deet_vars, backtrace_frame, dedup_frame, parallel_map_vars>>

(* handle_connection, lines 246-260: take the write guard, count, and      *)
(* either keep the guard while 429 is sent or drop it and go on.           *)
RateLimit(c) ==
    /\ conns[c] = "limit" /\ lock = None
    /\ LET r == rate_limit(num_reqs_by_ip, max_requests_per_minute, client_ip[c]) IN
        /\ num_reqs_by_ip' = r.num_reqs_by_ip
        /\ IF r.reject
           THEN /\ lock' = Some(c)
                /\ conns' = [conns EXCEPT ![c] = "send_429"]
                /\ tally' = [tally EXCEPT !.rejected[client_ip[c]] = @ + 1]
           ELSE /\ lock' = None
                /\ conns' = [conns EXCEPT ![c] = "forward"]
                /\ tally' = [tally EXCEPT !.admitted[client_ip[c]] = @ + 1]
    /\ UNCHANGED max_requests_per_minute
    /\ UNCHANGED <<deet_vars, backtrace_frame, dedup_frame, parallel_map_vars>>

\* handle_connection, lines 256-258: 429 sent, the guard dropped by continue
Send429(c) ==
    /\ conns[c] = "send_429" /\ lock = Some(c)
    /\ lock' = None
    /\ conns' = [conns EXCEPT ![c] = "read"]
    /\ tally' = [tally EXCEPT !.sent_429[client_ip[c]] = @ + 1]
    /\ UNCHANGED <<max_requests_per_minute, num_reqs_by_ip>>
    /\ UNCHANGED <<deet_vars, backtrace_frame, dedup_frame, parallel_map_vars>>

\* handle_connection, lines 265-274: the request written to the upstream, or 502
Forward(c) ==
    /\ conns[c] = "forward"
    /\ \/ /\ conns' = [conns EXCEPT ![c] = "response"]
          /\ tally' = [tally EXCEPT !.forwarded[client_ip[c]] = @ + 1]
       \/ /\ conns' = [conns EXCEPT ![c] = "closed"]
          /\ tally' = tally
    /\ UNCHANGED <<max_requests_per_minute, num_reqs_by_ip, lock>>
    /\ UNCHANGED <<deet_vars, backtrace_frame, dedup_frame, parallel_map_vars>>

\* handle_connection, lines 277-288: the response passed on, or 502
Response(c) ==
    /\ conns[c] = "response"
    /\ \E ok \in BOOLEAN : conns' = [conns EXCEPT ![c] = IF ok THEN "read" ELSE "closed"]
    /\ UNCHANGED <<max_requests_per_minute, num_reqs_by_ip, lock, tally>>
    /\ UNCHANGED <<deet_vars, backtrace_frame, dedup_frame, parallel_map_vars>>

\* main, lines 120-125: the task that clears the counts every minute
Reset ==
    /\ lock = None /\ tally.resets < MaxResets
    /\ num_reqs_by_ip' = EmptyMap
    /\ tally' = ZeroTally @@ [requests |-> tally.requests, resets |-> tally.resets + 1]
    /\ UNCHANGED <<max_requests_per_minute, lock, conns>>
    /\ UNCHANGED <<deet_vars, backtrace_frame, dedup_frame, parallel_map_vars>>

RateNext ==
    \/ \E c \in Conns : Connect(c)
    \/ \E c \in Conns : ReadRequest(c)
    \/ \E c \in Conns : RateLimit(c)
    \/ \E c \in Conns : Send429(c)
    \/ \E c \in Conns : Forward(c)
    \/ \E c \in Conns : Response(c)
    \/ Reset

RateSpec == RateInit /\ [][RateNext]_vars

----------------------------------------------------------------------------
(* Vocabulary of the properties *)

HasProcess == inferior # None
Child == children[inferior.pid]
LiveProcess == HasProcess /\ Child.alive
AliveChildren == {pid \in DOMAIN children : children[pid].alive}

LogHas(op, arg) == \E i \in DOMAIN log : log[i].op = op /\ log[i].arg = arg
Printed(msg) == \E i \in DOMAIN log : log[i].op = "println" /\ log[i].arg[1] = msg
Panicked(msg) == session = "panicked" /\ log # <<>> /\ log[Len(log)] = Ev("panic", <<msg>>)

\* The last command single-stepped from address a
SteppedFrom(a) == \E i \in DOMAIN log : log[i].op = "step" /\ log[i].arg[1] = a

\* The wait right after the single-step returned Ok(Stopped(sig, _))
StepWaitStopped(sig) ==
    \E i \in DOMAIN log : log[i].op = "step" /\ log[i + 1].op = "wait"
        /\ log[i + 1].arg[1] = "Stopped" /\ log[i + 1].arg[2] = sig

\* The wait right after the single-step returned Ok(Exited) or Ok(Signaled)
StepWaitTerminal ==
    \E i \in DOMAIN log : log[i].op = "step" /\ log[i + 1].op = "wait"
        /\ log[i + 1].arg[1] \in {"Exited", "Signaled"}

\* The wait right after the continue returned Ok(Stopped(_, ip))
ContWaitStoppedAt(ip) ==
    \E i \in DOMAIN log : log[i].op = "cont" /\ i < Len(log) /\ log[i + 1].op = "wait"
        /\ log[i + 1].arg[1] = "Stopped" /\ log[i + 1].arg[3] = ip

\* The continue of the last command was issued with the trap opcode at a
ContinuedWithTrapAt(a) ==
    \E i \in DOMAIN log : log[i].op = "cont" /\ log[i].arg # <<>> /\ a \in log[i].arg[1]

\* Trace requests logged after the position of the single-step's wait
RequestsAfterStepWait ==
    {log[j].op : j \in {k \in DOMAIN log :
        \E i \in DOMAIN log : log[i].op = "step" /\ k > i + 1}}
        \cap {"cont", "step", "write_byte", "getregs", "setregs", "wait", "kill"}

----------------------------------------------------------------------------
(* C1: when the process is resumed and the wait reports a stop at a + 1    *)
(* for an installed breakpoint a, control returns to the prompt with the   *)
(* original image byte back at a and %rip equal to a.                      *)
C1_StopAtBreakpointRestoresByteAndIp ==
    \A a \in MappedAddrs :
        (HasProcess /\ Contains(breakpoints, a) /\ a \in DOMAIN inferior.bp_map
            /\ ContWaitStoppedAt(a + 1))
        => /\ session = "prompt"
           /\ Child.alive
           /\ ByteAt(Child.mem, a) = ByteAt(Image, a)
           /\ Child.rip = a

C1_Witness ==
    \E a \in MappedAddrs :
        /\ session = "prompt" /\ HasProcess
        /\ Contains(breakpoints, a) /\ a \in DOMAIN inferior.bp_map
        /\ ContWaitStoppedAt(a + 1)
        /\ Printed("Program stopped at breakpoint")
        /\ Child.rip = a /\ ByteAt(Child.mem, a) = ByteAt(Image, a)

(* C2 (as claimed): every continue that Resume issues after its single-step *)
(* from a requested address a is issued with the trap opcode at a again.    *)
C2_ContinueAfterStepHasTrap ==
    \A a \in MappedAddrs :
        (SteppedFrom(a) /\ \E i \in DOMAIN log : log[i].op = "cont" /\ log[i].arg # <<>>)
        => ContinuedWithTrapAt(a)

(* C3 (as claimed): whenever the session's process is alive, every         *)
(* requested breakpoint is a key of its bp_map.                            *)
C3_RequestedSubsetOfInstalled ==
    LiveProcess => \A i \in DOMAIN breakpoints : breakpoints[i] \in DOMAIN inferior.bp_map

(* C4 (as claimed): at the prompt every key of the live process's bp_map   *)
(* holds the trap opcode in the process's memory.                          *)
C4_EveryKeyHoldsTrap ==
    (session = "prompt" /\ LiveProcess)
    => \A a \in DOMAIN inferior.bp_map : ByteAt(Child.mem, a) = TRAP

(* C4 (amended): at the prompt every key of the live process's bp_map      *)
(* holds the trap opcode or, for a requested address whose trap a          *)
(* breakpoint stop lifted, the original byte the map saved for it.         *)
C4_KeyHoldsTrapOrSavedByte ==
    (session = "prompt" /\ LiveProcess)
    => \A a \in DOMAIN inferior.bp_map :
          \/ ByteAt(Child.mem, a) = TRAP
          \/ /\ ByteAt(Child.mem, a) = inferior.bp_map[a]
             /\ inferior.bp_map[a] = ByteAt(Image, a)
             /\ Contains(breakpoints, a)

C4_Witness ==
    /\ session = "prompt" /\ LiveProcess
    /\ \E a \in DOMAIN inferior.bp_map : ByteAt(Child.mem, a) = TRAP
    /\ \E a \in DOMAIN inferior.bp_map :
          /\ ByteAt(Child.mem, a) = inferior.bp_map[a]
          /\ Child.rip = a
          /\ Printed("Program stopped at breakpoint")

\* The last command was a Break that resolved to the new address a and
\* failed to install it into the session's process
BreakInstallFailed(a) ==
    /\ log # <<>> /\ log[1].op = "println"
    /\ log[1].arg[1] = "Setting breakpoint" /\ log[1].arg[3] = a
    /\ LogHas("println", <<"Unable to set breakpoint at", a>>)

BreakAddrs == MappedAddrs \cup {16}

(* C5 (as claimed): a Break whose install into the active process fails    *)
(* still appends the address to the breakpoint table.                      *)
C5_FailedInstallStillRecorded ==
    \A a \in BreakAddrs :
        BreakInstallFailed(a)
        => Contains(breakpoints, a) /\ session = "prompt" /\ HasProcess

(* C5 (amended): a Break whose install into the active process fails       *)
(* reports the failure, leaves the address out of the breakpoint table and *)
(* of bp_map, and the session keeps running with its process.              *)
C5_FailedInstallNotRecorded ==
    \A a \in BreakAddrs :
        BreakInstallFailed(a)
        => /\ ~Contains(breakpoints, a)
           /\ HasProcess /\ a \notin DOMAIN inferior.bp_map
           /\ session = "prompt"

C5_Witness ==
    \E a \in BreakAddrs :
        /\ BreakInstallFailed(a) /\ LiveProcess
        /\ ~Contains(breakpoints, a) /\ session = "prompt"

\* The last command was a Run whose launch returned no process
RunLaunchFailed == Printed("Starting program") /\ Printed("Error starting subprocess.")

(* C6 (as claimed): after a Run whose launch failed the session has no     *)
(* active process.                                                         *)
C6_FailedRunLeavesNoProcess ==
    RunLaunchFailed => (session = "prompt" /\ inferior = None)

(* C7 (as claimed): two children launched by the session are never alive   *)
(* at the same time.                                                       *)
C7_AtMostOneAliveChild == Cardinality(AliveChildren) <= 1

(* C8 (as claimed): a process the session holds at the prompt is alive.    *)
C8_HeldProcessIsAlive == (session = "prompt" /\ HasProcess) => Child.alive

(* C9 (as claimed): a terminal status at the wait after the single-step    *)
(* is reported, the process is discarded, Resume completes and issues no   *)
(* further trace request.                                                  *)
C9_TerminalAfterStepEndsResume ==
    StepWaitTerminal
    => /\ session = "prompt"
       /\ inferior = None
       /\ RequestsAfterStepWait = {}

(* C10: a stop by a signal other than SIGTRAP at the wait after the        *)
(* single-step ends the session with the panic that names the violation:   *)
(* no re-patch, no continue, no other trace request follows.               *)
C10_OtherSignalAfterStepIsFatal ==
    \A a \in MappedAddrs :
        (SteppedFrom(a) /\ StepWaitStopped(SIGSEGV))
        => /\ Panicked("Stopped after ptrace::step due to signal other than SIGTRAP.")
           /\ RequestsAfterStepWait = {}
           /\ HasProcess /\ ByteAt(Child.mem, a) # TRAP

C10_Witness ==
    \E a \in MappedAddrs :
        /\ SteppedFrom(a) /\ StepWaitStopped(SIGSEGV)
        /\ Panicked("Stopped after ptrace::step due to signal other than SIGTRAP.")

----------------------------------------------------------------------------
\* The step is the command "break inp"
BreakStep(inp) == session = "prompt" /\ Commit(set_breakpoint(Cur, inp))

NoDuplicates(seq) == \A i, j \in DOMAIN seq : seq[i] = seq[j] => i = j

\* The spec resolves to an address the breakpoint table already holds
ResolvesToPresent(inp) ==
    /\ resolve_breakpoint(inp).addr # None
    /\ Contains(breakpoints, resolve_breakpoint(inp).addr.val)

(* C11: the breakpoint table never holds an address twice, and a Break     *)
(* that resolves to an address already in it prints the duplicate message  *)
(* and changes neither the table nor the process (its memory, its bp_map). *)
C11_NoDuplicateBreakpoints ==
    [][ /\ NoDuplicates(breakpoints')
        /\ \A inp \in BreakSpecs :
              (BreakStep(inp) /\ ResolvesToPresent(inp))
              => /\ log' = <<Ev("println", <<"Breakpoint already set here",
                                              resolve_breakpoint(inp).addr.val>>)>>
                 /\ UNCHANGED <<breakpoints, inferior, children, session>> ]_vars

C11_Witness ==
    \E a \in MappedAddrs :
        /\ log = <<Ev("println", <<"Breakpoint already set here", a>>)>>
        /\ LiveProcess /\ session = "prompt"
        /\ Contains(breakpoints, a) /\ a \in DOMAIN inferior.bp_map
        /\ NoDuplicates(breakpoints) /\ Len(breakpoints) >= 2

\* The events of the log that are requests to the OS about the traced process
TraceRequests ==
    {"cont", "step", "read", "write_byte", "getregs", "setregs", "wait", "kill", "spawn"}

(* C12: with no process held (inferior = None), Continue and Backtrace     *)
(* print their message and nothing else, issue no trace request, and leave *)
(* the breakpoint table, the absence of a process and the children as they *)
(* were.                                                                   *)
C12_NoProcessCommandsOnlyReport ==
    [][ inferior = None
        => /\ Continue => /\ log' = <<Ev("println", <<"No stopped program to resume.">>)>>
                          /\ UNCHANGED <<breakpoints, inferior, children, session, p>>
           /\ Backtrace => /\ log' = <<Ev("println", <<"No program is running.">>)>>
                           /\ UNCHANGED <<breakpoints, inferior, children, session, p>> ]_vars

C12_Witness ==
    /\ log = <<Ev("println", <<"No program is running.">>)>>
    /\ inferior = None /\ session = "prompt"
    /\ breakpoints # <<>> /\ children # <<>>
    /\ \A i \in DOMAIN log : log[i].op \notin TraceRequests

(* The specs of BreakSpecs that cannot be resolved: a malformed address, a *)
(* line number with no address, an unknown function name.                  *)
UnresolvableSpecs == {<<"*", "z">>, <<"7">>, <<"f">>}

(* C13: a Break whose spec cannot be resolved prints one error and leaves  *)
(* the breakpoint table, the process's bp_map and the process's memory as  *)
(* they were.                                                              *)
C13_UnresolvableBreakChangesNothing ==
    [][ \A inp \in UnresolvableSpecs :
            BreakStep(inp)
            => /\ Len(log') = 1 /\ log'[1].op = "println" /\ log'[1].arg[1] = "ERROR"
               /\ UNCHANGED <<breakpoints, inferior, children, session, p>> ]_vars

C13_Witness ==
    /\ Len(log) = 1 /\ log[1].op = "println" /\ log[1].arg[1] = "ERROR"
    /\ log[1].arg[2] = "is not a valid line number."
    /\ LiveProcess /\ session = "prompt"
    /\ breakpoints # <<>> /\ Armed(Child.mem) # {}

(* What each spec of BreakSpecs means: a '*' spec is the hexadecimal        *)
(* address after the star, a decimal number is a source line (5 is at 2, 7 *)
(* has no address), anything else is a function name (main is at 9).       *)
SpecMeaning ==
    (<<"*", "0", "x", "2">> :> [addr |-> Some(2), err |-> ""]) @@
    (<<"*", "9">> :> [addr |-> Some(9), err |-> ""]) @@
    (<<"*", "1", "0">> :> [addr |-> Some(16), err |-> ""]) @@
    (<<"*", "z">> :> [addr |-> None, err |-> "is not a well-formed address."]) @@
    (<<"5">> :> [addr |-> Some(2), err |-> ""]) @@
    (<<"7">> :> [addr |-> None, err |-> "is not a valid line number."]) @@
    (<<"m", "a", "i", "n">> :> [addr |-> Some(9), err |-> ""]) @@
    (<<"f">> :> [addr |-> None, err |-> "is not a valid function name."]) @@
    (<<"0", "x", "2">> :> [addr |-> None, err |-> "is not a valid function name."])

\* The address the first message of a Break names, -1 for an error message
AnnouncedAddr(e) ==
    IF e.arg[1] = "Setting breakpoint" THEN e.arg[3]
    ELSE IF e.arg[1] = "Breakpoint already set here" THEN e.arg[2]
    ELSE -1

(* C14: Break takes a spec that starts with '*' as a hexadecimal address,  *)
(* any other spec that is a decimal number as a source line only, and any  *)
(* other spec as a function name only; what it cannot resolve it reports   *)
(* with the error of that class and registers nothing.                     *)
C14_BreakClassifiesSpecInOrder ==
    [][ \A inp \in BreakSpecs :
            BreakStep(inp)
            => /\ log' # <<>> /\ log'[1].op = "println"
               /\ IF SpecMeaning[inp].addr = None
                  THEN /\ log' = <<Ev("println", <<"ERROR", SpecMeaning[inp].err>>)>>
                       /\ breakpoints' = breakpoints
                  ELSE /\ AnnouncedAddr(log'[1]) = SpecMeaning[inp].addr.val
                       /\ \/ breakpoints' = breakpoints
                          \/ breakpoints' = Append(breakpoints, SpecMeaning[inp].addr.val) ]_vars

C14_Witness ==
    /\ log = <<Ev("println", <<"Setting breakpoint", 1, 16>>)>>
    /\ breakpoints = <<2, 16>> /\ inferior = None /\ session = "prompt"

\* The message of set_breakpoint that announces an index for an address
IsAnnouncement(e) == e.op = "println" /\ e.arg[1] = "Setting breakpoint"

(* C15 (as claimed): the address a Break announced an index for is in the  *)
(* breakpoint table at that index.                                         *)
C15_AnnouncedIndexHoldsAddress ==
    \A i \in DOMAIN log :
        IsAnnouncement(log[i])
        => /\ Len(breakpoints) > log[i].arg[2]
           /\ breakpoints[log[i].arg[2] + 1] = log[i].arg[3]

(* C15 (amended): the breakpoint table only grows at its end, by the one   *)
(* address a Break announced, at the index announced for it (the length of *)
(* the table before); an entry never moves.  A Break that announced an     *)
(* index and appended nothing is one whose install into the process        *)
(* failed: its index is announced again by the next Break that appends.    *)
C15_AppendedAtAnnouncedIndex ==
    [][ /\ Len(breakpoints') >= Len(breakpoints)
        /\ \A i \in DOMAIN breakpoints : breakpoints'[i] = breakpoints[i]
        /\ breakpoints' # breakpoints
           => /\ log' # <<>> /\ IsAnnouncement(log'[1])
              /\ log'[1].arg[2] = Len(breakpoints)
              /\ breakpoints' = Append(breakpoints, log'[1].arg[3])
        /\ \A inp \in BreakSpecs :
              (BreakStep(inp) /\ IsAnnouncement(log'[1]) /\ breakpoints' = breakpoints)
              => /\ inferior # None
                 /\ log'[Len(log')] = Ev("println", <<"Unable to set breakpoint at", log'[1].arg[3]>>)
       ]_vars

C15_Witness ==
    /\ Len(log) >= 2 /\ IsAnnouncement(log[1])
    /\ log[1].arg[2] = 1 /\ log[1].arg[3] = 9
    /\ breakpoints = <<2, 9>> /\ LiveProcess /\ session = "prompt"
    /\ 9 \in DOMAIN inferior.bp_map

(* The launch logged at i (its spawn) met the one outcome that gives a     *)
(* process: the spawn worked and the first wait reported Stopped(SIGTRAP). *)
LaunchTrapped(i) ==
    /\ log[i].arg[1] = "Ok"
    /\ i < Len(log) /\ log[i + 1] = Ev("wait", <<"Stopped", SIGTRAP>>)

(* C16: Inferior::new returns a process (Run stores it and starts resume,  *)
(* whose first request is getregs) exactly when the spawn worked and the   *)
(* first wait reported Stopped(SIGTRAP); on every other outcome it returns *)
(* None: Run prints its error, issues no request and stores no new pid.    *)
C16_LaunchOnlyOnTrapStop ==
    \A i \in DOMAIN log :
        log[i].op = "spawn"
        => IF LaunchTrapped(i)
           THEN /\ \E j \in DOMAIN log : j > i /\ log[j].op = "getregs"
                /\ ~Printed("Error starting subprocess.")
                /\ inferior = None \/ inferior.pid = log[i].arg[2]
           ELSE /\ log[Len(log)] = Ev("println", <<"Error starting subprocess.">>)
                /\ \A j \in DOMAIN log : j > i => log[j].op \in {"wait", "println"}
                /\ \/ inferior = None
                   \/ log[i].arg[1] = "Err"
                   \/ inferior.pid # log[i].arg[2]

C16_Witness ==
    \E i \in DOMAIN log :
        /\ log[i] = Ev("spawn", <<"Ok", 2>>)
        /\ log[i + 1] = Ev("wait", <<"Stopped", SIGSEGV>>)
        /\ log[Len(log)] = Ev("println", <<"Error starting subprocess.">>)
        /\ session = "prompt" /\ children[2].alive

\* The step is one readline of get_yes_no that returned r
YesNoStep(r) == session = "get_yes_no" /\ Commit(get_yes_no(Cur, r))

\* The answers of ReadlineResults by what the user meant
YesAnswers == {Line(<<"y">>), Line(<<"Yes">>)}
NoAnswers == {Line(<<"n">>), Line(<<"No", "thanks">>)}
OtherAnswers ==
    {Line(<<>>), Line(<<"q">>), ReadlineError("Interrupted"), ReadlineError("Eof")}

(* C17: Quit with no process ends the session at once, without a prompt.   *)
(* Quit with a process asks and touches nothing yet; a yes kills the       *)
(* process and ends the session, a no returns to the prompt with the       *)
(* process and the table as they were, any other answer asks again; and    *)
(* the session never ends in "quit" any other way.                         *)
C17_QuitAsksBeforeKilling ==
    [][ /\ (Quit /\ inferior = None)
           => /\ session' = "quit" /\ log' = <<>>
              /\ UNCHANGED <<breakpoints, inferior, children>>
        /\ (Quit /\ inferior # None)
           => /\ session' = "get_yes_no" /\ p' = FirstPrompt
              /\ UNCHANGED <<breakpoints, inferior, children>>
        /\ \A r \in YesAnswers :
              YesNoStep(r)
              => /\ session' \in {"quit", "panicked"}
                 /\ ~children'[inferior.pid].alive
                 /\ Child.alive => /\ session' = "quit"
                                   /\ \E i \in DOMAIN log' : log'[i].op = "kill"
        /\ \A r \in NoAnswers :
              YesNoStep(r)
              => /\ session' = "prompt"
                 /\ UNCHANGED <<breakpoints, inferior, children>>
        /\ \A r \in OtherAnswers :
              YesNoStep(r)
              => /\ session' = "get_yes_no" /\ p' = AgainPrompt
                 /\ UNCHANGED <<breakpoints, inferior, children>>
        /\ (session' = "quit" /\ session # "quit")
           => \/ Quit /\ inferior = None
              \/ \E r \in YesAnswers : YesNoStep(r)
      ]_vars

C17_Witness ==
    /\ session = "quit" /\ HasProcess /\ ~Child.alive
    /\ log = <<Ev("readline", <<Line(<<"Yes">>)>>), Ev("kill", <<>>),
               Ev("wait", <<"Signaled", SIGKILL>>)>>
    /\ breakpoints # <<>>

(* C18 (as claimed): every wait of the last command that failed is         *)
(* followed by a message to the user (a println, or the text of a panic).  *)
C18_EveryFailedWaitIsReported ==
    \A i \in DOMAIN log :
        log[i] = Ev("wait", <<"Err">>)
        => i < Len(log) /\ log[i + 1].op \in {"println", "panic"}

----------------------------------------------------------------------------
Range(seq) == {seq[i] : i \in DOMAIN seq}

\* The elements of seq without those that repeat an earlier one, in order
RECURSIVE FirstOccurrences(_)
FirstOccurrences(seq) ==
    IF seq = <<>> THEN <<>>
    ELSE LET front == SubSeq(seq, 1, Len(seq) - 1)
             last == seq[Len(seq)]
         IN  IF last \in Range(front) THEN FirstOccurrences(front)
             ELSE Append(FirstOccurrences(front), last)

(* C20: dedup never panics, and when it returns v holds each distinct      *)
(* value of the vector it was called on once, in the order of the first    *)
(* occurrences.                                                            *)
C20_DedupKeepsFirstOccurrences ==
    /\ dedup_frame.pc # "panicked"
    /\ dedup_frame.pc = "done"
       => /\ dedup_frame.v = FirstOccurrences(dedup_frame.input)
          /\ NoDuplicates(dedup_frame.v)
          /\ Range(dedup_frame.v) = Range(dedup_frame.input)

C20_Witness ==
    /\ dedup_frame.pc = "done"
    /\ dedup_frame.input = <<1, 0, 1, 0>>
    /\ dedup_frame.to_remove = <<2, 3>>
    /\ dedup_frame.v = <<1, 0>>

----------------------------------------------------------------------------
\* The count num_reqs_by_ip holds for a client IP, 0 when it holds none
CountOf(ip) == IF ip \in DOMAIN num_reqs_by_ip THEN num_reqs_by_ip[ip] ELSE 0

Min(x, y) == IF x <= y THEN x ELSE y

\* The connections of a client IP that hold a rejected request not yet answered
Sending429(ip) == {c \in Conns : client_ip[c] = ip /\ conns[c] = "send_429"}

(* C19 (as claimed): with a limit m > 0, at most m requests of one client  *)
(* IP are forwarded upstream between two consecutive resets.               *)
C19_ForwardedWithinLimit ==
    max_requests_per_minute > 0
    => \A ip \in IPs : tally.forwarded[ip] <= max_requests_per_minute

(* C19 (amended): with a limit m > 0, of the requests of one client IP     *)
(* counted since the last reset the first m pass the rate limit and every  *)
(* further one is rejected and answered with 429, under the write guard;   *)
(* with m = 0 none is rejected.                                            *)
C19_AdmittedWithinLimit ==
    \A ip \in IPs :
        /\ tally.admitted[ip] + tally.rejected[ip] = CountOf(ip)
        /\ tally.sent_429[ip] + Cardinality(Sending429(ip)) = tally.rejected[ip]
        /\ max_requests_per_minute > 0
           => tally.admitted[ip] = Min(CountOf(ip), max_requests_per_minute)
        /\ max_requests_per_minute = 0 => tally.rejected[ip] = 0
        /\ Sending429(ip) # {} => \E c \in Sending429(ip) : lock = Some(c)

C19_Witness ==
    /\ max_requests_per_minute = 1
    /\ tally.resets = 1
    /\ tally.admitted["a"] = 1 /\ tally.sent_429["a"] = 1 /\ CountOf("a") = 2
    /\ tally.admitted["b"] = 1
    /\ conns[1] = "response" /\ conns[2] = "read"

----------------------------------------------------------------------------
(* C21 (as claimed): whenever Resume issues its single-step from a         *)
(* requested address ip, the process holds at ip the original byte of the  *)
(* program image and not the trap opcode.                                  *)
C21_StepExecutesOriginalByte ==
    \A i \in DOMAIN log :
        log[i].op = "step"
        => /\ log[i].arg[2] = ByteAt(Image, log[i].arg[1])
           /\ log[i].arg[2] # TRAP

----------------------------------------------------------------------------
\* PatchSpec: the memory after the call logged at i
MemAfter(i) == IF i < Len(log) THEN log[i + 1].arg[5] ELSE Child.mem

(* C22: write_byte(addr, val) on a mapped word returns Ok with the byte    *)
(* that was at addr, leaves val at addr, and leaves every other byte of    *)
(* the word and of the rest of memory as it was; on a word that is not     *)
(* mapped it returns Err and memory is as it was.                          *)
C22_PatchByteReplacesOneByte ==
    \A i \in DOMAIN log :
        LET addr == log[i].arg[1]
            val == log[i].arg[2]
            before == log[i].arg[5]
            after == MemAfter(i)
        IN  IF align_addr_to_word(addr) \in MappedWords
            THEN /\ log[i].arg[3]
                 /\ log[i].arg[4] = ByteAt(before, addr)
                 /\ ByteAt(after, addr) = val
                 /\ \A b \in MappedAddrs \ {addr} : ByteAt(after, b) = ByteAt(before, b)
            ELSE ~log[i].arg[3] /\ after = before

C22_Witness ==
    /\ Len(log) = 2
    /\ log[1] = Ev("write_byte", <<15, TRAP, TRUE, ByteAt(Image, 15), Image>>)
    /\ log[2].arg[1] = 8 /\ log[2].arg[2] = ByteMax /\ log[2].arg[4] = ByteAt(Image, 8)
    /\ ByteAt(Child.mem, 15) = TRAP /\ ByteAt(Child.mem, 8) = ByteMax
    /\ \A b \in MappedAddrs \ {8, 15} : ByteAt(Child.mem, b) = ByteAt(Image, b)

(* C23: a write_byte(addr, v) that returned o, followed by                 *)
(* write_byte(addr, o), leaves memory exactly as it was before the first   *)
(* call, and the second call returns v.                                    *)
C23_PatchByteRoundTrips ==
    \A i \in DOMAIN log :
        (/\ i < Len(log) /\ log[i].arg[3]
         /\ log[i + 1].arg[1] = log[i].arg[1]
         /\ log[i + 1].arg[2] = log[i].arg[4])
        => /\ log[i + 1].arg[3]
           /\ log[i + 1].arg[4] = log[i].arg[2]
           /\ MemAfter(i + 1) = log[i].arg[5]

C23_Witness ==
    /\ Len(log) = 2
    /\ log[1] = Ev("write_byte", <<13, TRAP, TRUE, ByteAt(Image, 13), Image>>)
    /\ log[2].arg[1] = 13 /\ log[2].arg[2] = ByteAt(Image, 13)
    /\ log[2].arg[3] /\ log[2].arg[4] = TRAP
    /\ log[2].arg[5] # Image
    /\ Child.mem = Image

----------------------------------------------------------------------------
(* InstallSpec: every step is one call of write_breakpoints, and the first  *)
(* entry of the log it leaves holds the batch it was called on.            *)

\* The call logged wrote to memory at address a (or tried to)
Wrote(lg, a) == \E i \in DOMAIN lg : lg[i] = Ev("write_byte", <<a>>)

(* C24: write_breakpoints writes nothing at an address bp_map already      *)
(* holds and leaves the byte recorded for it as it was; a batch installed  *)
(* a second time returns what it returned the first time and leaves bp_map *)
(* and memory exactly as the first install left them.                      *)
C24_InstallIsIdempotent ==
    [][ LET bpts == log'[1].arg[1] IN
            (log'[1].op = "write_breakpoints" /\ bpts \in Batches)
            => /\ \A a \in DOMAIN inferior.bp_map :
                     /\ a \in DOMAIN inferior'.bp_map
                     /\ inferior'.bp_map[a] = inferior.bp_map[a]
                     /\ ~Wrote(log', a)
                     /\ ByteAt(children'[inferior.pid].mem, a) = ByteAt(Child.mem, a)
               /\ (log # <<>> /\ log[1].arg[1] = bpts)
                  => /\ inferior' = inferior
                     /\ children' = children
                     /\ log'[1].arg[2] = log[1].arg[2]
                     /\ \A a \in Range(bpts) : ~Wrote(log', a) \/ a \notin MappedAddrs ]_vars

C24_Witness ==
    /\ log # <<>> /\ log[1] = Ev("write_breakpoints", <<(<<9, 2, 9>>), TRUE, inferior.bp_map>>)
    /\ DOMAIN inferior.bp_map = {2, 9}
    /\ inferior.bp_map[9] = ByteAt(Image, 9) /\ inferior.bp_map[2] = ByteAt(Image, 2)
    /\ Len(log) = 4 /\ \A i \in 2 .. 4 : log[i].op = "println"
    /\ ByteAt(Child.mem, 9) = TRAP /\ ByteAt(Child.mem, 2) = TRAP

\* The first place of the batch whose address is not mapped, 0 when there is none
FirstUnmapped(bpts) ==
    IF \A k \in DOMAIN bpts : bpts[k] \in MappedAddrs THEN 0
    ELSE CHOOSE k \in DOMAIN bpts :
            /\ bpts[k] \notin MappedAddrs
            /\ \A j \in 1 .. (k - 1) : bpts[j] \in MappedAddrs

(* C25: when the patch of an address of the batch fails, write_breakpoints *)
(* returns Err and reports the address; the addresses before it are        *)
(* recorded in bp_map and hold the trap opcode, the failing address is not *)
(* recorded, and no address after it is patched or recorded.               *)
C25_FailedBatchStopsAtFailure ==
    [][ LET bpts == log'[1].arg[1] IN
            (log'[1].op = "write_breakpoints" /\ FirstUnmapped(bpts) # 0)
            => LET k == FirstUnmapped(bpts)
                   before == {bpts[j] : j \in 1 .. (k - 1)}
               IN  /\ ~log'[1].arg[2]
                   /\ log'[Len(log')] = Ev("println", <<"Unable to set breakpoint at", bpts[k]>>)
                   /\ DOMAIN inferior'.bp_map = DOMAIN inferior.bp_map \cup before
                   /\ bpts[k] \notin DOMAIN inferior'.bp_map
                   /\ \A a \in before : ByteAt(children'[inferior.pid].mem, a) = TRAP
                   /\ \A a \in MappedAddrs \ before :
                         ByteAt(children'[inferior.pid].mem, a) = ByteAt(Child.mem, a) ]_vars

C25_Witness ==
    /\ log # <<>> /\ log[1] = Ev("write_breakpoints", <<(<<2, 16, 9>>), FALSE, EmptyMap>>)
    /\ log[Len(log)] = Ev("println", <<"Unable to set breakpoint at", 16>>)
    /\ DOMAIN inferior.bp_map = {2}
    /\ ByteAt(Child.mem, 2) = TRAP /\ ByteAt(Child.mem, 9) = ByteAt(Image, 9)

----------------------------------------------------------------------------
\* The requests that set the traced process running
ResumeRequests == {"step", "cont"}

(* C26: every single-step and every continue of a command is followed at   *)
(* once by a wait on the process, before any other trace request; a        *)
(* continue the OS refused (the process is gone) set nothing running and   *)
(* ends the session in its panic.                                          *)
C26_ResumeRequestFollowedByWait ==
    \A i \in DOMAIN log :
        log[i].op \in ResumeRequests
        => /\ i < Len(log)
           /\ IF log[i] = Ev("cont", <<>>)
              THEN i + 1 = Len(log) /\ log[i + 1].op = "panic"
              ELSE log[i + 1].op = "wait"

C26_Witness ==
    \E i \in DOMAIN log :
        /\ i + 4 <= Len(log)
        /\ log[i].op = "step" /\ log[i + 1] = Ev("wait", <<"Stopped", SIGTRAP>>)
        /\ log[i + 2].op = "write_byte"
        /\ log[i + 3].op = "cont" /\ log[i + 4].op = "wait"
        /\ session = "prompt" /\ LiveProcess

----------------------------------------------------------------------------
(* BacktraceSpec: the walk stands at backtrace_frame; a turn of the loop   *)
(* leaves in log what it printed and read.                                 *)

\* The value of the word the process holds at addr
WordAt(addr) == WordValue(ptrace_read(Child, addr).word)

\* The read of the word at addr gives a value the walk can go on with
Readable(addr) ==
    ptrace_read(Child, addr).ok /\ ptrace_read(Child, addr).word[WordSize - 1] < 128

IsMain(ip) == ip \in DOMAIN FunctionAt /\ FunctionAt[ip] = "main"

\* The line backtrace prints for a frame
IsFrameLine(e) == e.op = "println" /\ e.arg[1] = "#"

Marker == Ev("println", <<"ERROR: Unable to complete backtrace.">>)

(* C27: the walk starts at frame 0 with the process's ip and frame base;   *)
(* each turn prints one frame, with the walk's index and ip; after a frame *)
(* of main the walk stops at once; after any other frame it goes on, while *)
(* the reads work, with the index one higher, the ip from the word at      *)
(* frame base + 8 and the frame base from the word at the frame base.      *)
C27_BacktraceWalksFrameChain ==
    [][ LET f == backtrace_frame
            g == backtrace_frame'
        IN  /\ (f.pc = "idle" /\ g.pc = "loop")
               => g.stack_idx = 0 /\ g.ip = Child.rip /\ g.bp = FrameBase[Child.rip]
            /\ f.pc = "loop"
               => /\ IsFrameLine(log'[1])
                  /\ log'[1].arg[2] = f.stack_idx /\ log'[1].arg[3] = f.ip
                  /\ \A i \in 2 .. Len(log') : ~IsFrameLine(log'[i])
                  /\ IF IsMain(f.ip)
                     THEN g.pc = "done" /\ Len(log') = 1
                     ELSE /\ g.pc = "loop" <=> (Readable(f.bp + 8) /\ Readable(f.bp))
                          /\ g.pc = "loop"
                             => /\ g.ip = WordAt(f.bp + 8)
                                /\ g.bp = WordAt(f.bp)
                                /\ f.stack_idx < MaxFrames => g.stack_idx = f.stack_idx + 1 ]_vars

C27_Witness ==
    /\ backtrace_frame = [pc |-> "done", ip |-> 10, bp |-> 48, stack_idx |-> 1]
    /\ log = <<Ev("println", <<"#", 1, 10, "main", "[unknown location]">>)>>
    /\ Child.rip = 2 /\ WordAt(24) = 48 /\ WordAt(32) = 10

(* C28: when a read of the walk fails (the return address at frame base    *)
(* + 8, or the saved frame base), the turn has printed its frame before    *)
(* the read, prints the marker, and the walk is over without a panic: the  *)
(* session is at its prompt with its process and breakpoints as they were. *)
C28_FailedReadTruncatesBacktrace ==
    [][ LET f == backtrace_frame IN
        (/\ f.pc = "loop" /\ ~IsMain(f.ip)
         /\ \/ ~ptrace_read(Child, f.bp + 8).ok
            \/ Readable(f.bp + 8) /\ ~ptrace_read(Child, f.bp).ok)
        => /\ IsFrameLine(log'[1]) /\ log'[1].arg[2] = f.stack_idx /\ log'[1].arg[3] = f.ip
           /\ log'[Len(log')] = Marker
           /\ \A i \in 2 .. (Len(log') - 1) : log'[i].op = "read"
           /\ backtrace_frame'.pc = "done"
           /\ session' = "prompt"
           /\ UNCHANGED <<breakpoints, inferior, children>> ]_vars

C28_Witness ==
    /\ backtrace_frame.pc = "done" /\ backtrace_frame.stack_idx = 1
    /\ backtrace_frame.bp = 16
    /\ log = <<Ev("println", <<"#", 1, 3, "g", "[unknown location]">>),
               Ev("read", <<24>>), Ev("read", <<16>>), Marker>>
    /\ session = "prompt" /\ LiveProcess

(* C30 (as claimed): every walk ends: it reaches a frame of main or a read *)
(* that fails (or a panic) after finitely many frames.                     *)
C30_BacktraceTerminates == <>(backtrace_frame.pc \in {"done", "panicked"})

----------------------------------------------------------------------------
\* The last command single-stepped from a and put the trap opcode back at a
ReArmed(a) ==
    \E i \in DOMAIN log :
        /\ log[i].op = "step" /\ log[i].arg[1] = a
        /\ i + 2 <= Len(log) /\ log[i + 2] = Ev("write_byte", <<a>>)

(* C29: the byte bp_map records for an address is the byte the program     *)
(* image holds there, never the trap opcode; and while the session keeps   *)
(* its process, an address recorded stays recorded with the same byte,     *)
(* through installs, breakpoint stops and re-arms.                         *)
C29_RecordedByteIsImageByte ==
    [][ /\ HasProcess
           => \A a \in DOMAIN inferior.bp_map :
                 inferior.bp_map[a] = ByteAt(Image, a) /\ inferior.bp_map[a] # TRAP
        /\ (HasProcess /\ inferior' # None /\ inferior'.pid = inferior.pid)
           => \A a \in DOMAIN inferior.bp_map :
                 a \in DOMAIN inferior'.bp_map /\ inferior'.bp_map[a] = inferior.bp_map[a] ]_vars

C29_Witness ==
    \E a \in MappedAddrs :
        /\ session = "prompt" /\ LiveProcess
        /\ ReArmed(a) /\ ContWaitStoppedAt(a + 1)
        /\ Printed("Program stopped at breakpoint")
        /\ Cardinality(DOMAIN inferior.bp_map) = 2
        /\ \A b \in DOMAIN inferior.bp_map : inferior.bp_map[b] = ByteAt(Image, b)
        /\ ByteAt(Child.mem, a) = ByteAt(Image, a)

----------------------------------------------------------------------------
\* The requests that change the traced process: its memory, its registers, its run state
WritingRequests == {"write_byte", "setregs", "step", "cont", "kill", "spawn"}

(* C31: Backtrace leaves the children of the session (their memory, their  *)
(* registers), the process slot with its bp_map and the breakpoint table   *)
(* as they were, and issues no request that writes to the process, whether *)
(* the walk completes, is truncated, or there is no process.               *)
C31_BacktraceIsReadOnly ==
    [][ Backtrace
        => /\ UNCHANGED <<breakpoints, inferior, children>>
           /\ \A i \in DOMAIN log' : log'[i].op \notin WritingRequests ]_vars

C31_Witness ==
    /\ log # <<>> /\ log[Len(log)] = Marker
    /\ \E i \in DOMAIN log : IsFrameLine(log[i])
    /\ session = "prompt" /\ LiveProcess
    /\ Len(breakpoints) = 2 /\ Cardinality(DOMAIN inferior.bp_map) = 2
    /\ Armed(Child.mem) # {}

----------------------------------------------------------------------------
(* C32 (as claimed): a stop the wait reports at ip = 0 is handled without  *)
(* a failure: it is reported as a generic stop and the session is back at  *)
(* its prompt with its process.                                            *)
C32_StopAtZeroIsGenericStop ==
    ContWaitStoppedAt(0)
    => /\ session = "prompt"
       /\ HasProcess
       /\ Printed("Program stopped (signal)")
       /\ \A i \in DOMAIN log : log[i].op # "panic"

----------------------------------------------------------------------------
\* a Run whose OS spawn succeeded and whose launch returned no process
SpawnedButNoProcess ==
    /\ \E i \in DOMAIN log : log[i].op = "spawn" /\ log[i].arg[1] = "Ok"
    /\ Printed("Error starting subprocess.")

(* C33 (as claimed): after a launch that spawned a child and returned no   *)
(* process, every child of the session that is still alive is the          *)
(* session's current process: the launch left no live child behind.        *)
C33_FailedLaunchLeavesNoOrphan ==
    SpawnedButNoProcess
    => \A pid \in AliveChildren : HasProcess /\ inferior.pid = pid

----------------------------------------------------------------------------
(* parallel_map: the calling thread and its workers, one channel           *)
(* operation per step.  Both channels are bounded(input_vec.len()); a      *)
(* recv on an empty channel blocks while a sender is alive and returns     *)
(* Err once every sender is dropped; a send blocks on a full channel and   *)
(* returns Err once the receiving side is gone.                            *)

MaxInputs == 2          \* the longest vector parallel_map is called on
MaxThreads == 2         \* the largest num_threads it is called with
InputValues == {2, 3}   \* the numbers its elements are drawn from

\* the closure main passes: num * num
f(num) == num * num

\* <i32 as Default>::default()
Default == 0

\* the vectors parallel_map is called on
InputVecs == UNION {[1..n -> InputValues] : n \in 0..MaxInputs}

\* lines 10-24: output_vec filled with defaults, both channels created
ParallelMapInit ==
    /\ DeetInit
    /\ dedup_frame = NoCall
    /\ backtrace_frame = NoWalk
    /\ ProxyIdle
    /\ input_vec \in InputVecs
    /\ num_threads \in 0..MaxThreads
    /\ output_vec = [k \in DOMAIN input_vec |-> Default]
    /\ channels = [to_thread |-> <<>>, send_to_thread |-> 1,
                   to_parent |-> <<>>, send_to_parent |-> 1]
    /\ threads = <<>>
    /\ parent = [pc |-> "spawn", i |-> 0]
    /\ applied = [k \in DOMAIN input_vec |-> 0]

\* one turn of `for i in 0..num_threads`: clone the sender, spawn the worker
SpawnThread ==
    /\ parent.pc = "spawn" /\ parent.i < num_threads
    /\ channels' = [channels EXCEPT !.send_to_parent = @ + 1]
    /\ threads' = Append(threads, [pc |-> "recv", output_pair |-> <<>>])
    /\ parent' = [parent EXCEPT !.i = @ + 1]
    /\ UNCHANGED <<input_vec, num_threads, output_vec, applied>>
    /\ UNCHANGED <<deet_vars, backtrace_frame, dedup_frame, proxy_vars>>

\* drop(send_to_parent) of the calling thread, after the spawning loop
DropSendToParent ==
    /\ parent.pc = "spawn" /\ parent.i = num_threads
    /\ channels' = [channels EXCEPT !.send_to_parent = @ - 1]
    /\ parent' = [pc |-> "send", i |-> 0]
    /\ UNCHANGED <<input_vec, num_threads, output_vec, threads, applied>>
    /\ UNCHANGED <<deet_vars, backtrace_frame, dedup_frame, proxy_vars>>

\* one turn of the loop over input_vec: send (index, item) to the workers
SendInput ==
    /\ parent.pc = "send" /\ parent.i < Len(input_vec)
    /\ Len(channels.to_thread) < Len(input_vec)
    /\ channels' = [channels EXCEPT
                      !.to_thread = Append(@, <<parent.i + 1, input_vec[parent.i + 1]>>)]
    /\ parent' = [parent EXCEPT !.i = @ + 1]
    /\ UNCHANGED <<input_vec, num_threads, output_vec, threads, applied>>
    /\ UNCHANGED <<deet_vars, backtrace_frame, dedup_frame, proxy_vars>>

\* drop(send_to_thread), after every input is sent
DropSendToThread ==
    /\ parent.pc = "send" /\ parent.i = Len(input_vec)
    /\ channels' = [channels EXCEPT !.send_to_thread = 0]
    /\ parent' = [pc |-> "recv", i |-> 0]
    /\ UNCHANGED <<input_vec, num_threads, output_vec, threads, applied>>
    /\ UNCHANGED <<deet_vars, backtrace_frame, dedup_frame, proxy_vars>>

\* receive_from_thread.recv() returns Ok: store the output at its index
RecvOutput ==
    /\ parent.pc = "recv" /\ channels.to_parent # <<>>
    /\ LET output_pair == Head(channels.to_parent) IN
           output_vec' = [output_vec EXCEPT ![output_pair[1]] = output_pair[2]]
    /\ channels' = [channels EXCEPT !.to_parent = Tail(@)]
    /\ UNCHANGED <<input_vec, num_threads, threads, parent, applied>>
    /\ UNCHANGED <<deet_vars, backtrace_frame, dedup_frame, proxy_vars>>

\* receive_from_thread.recv() returns Err: the loop ends, output_vec is returned
Return ==
    /\ parent.pc = "recv" /\ channels.to_parent = <<>>
    /\ channels.send_to_parent = 0
    /\ parent' = [parent EXCEPT !.pc = "returned"]
    /\ UNCHANGED <<input_vec, num_threads, output_vec, channels, threads, applied>>
    /\ UNCHANGED <<deet_vars, backtrace_frame, dedup_frame, proxy_vars>>

(* A worker at receive_from_parent.recv(): Ok takes the pair at the head   *)
(* and calls f on its input; Err, with the channel empty and its sender    *)
(* dropped, ends the loop and drops the worker's send_to_parent.           *)
WorkerRecv(t) ==
    /\ threads[t].pc = "recv"
    /\ IF channels.to_thread # <<>>
       THEN LET input_pair == Head(channels.to_thread)
                index == input_pair[1]
                output == f(input_pair[2])
            IN  /\ channels' = [channels EXCEPT !.to_thread = Tail(@)]
                /\ threads' = [threads EXCEPT ![t] = [pc |-> "send",
                                                      output_pair |-> <<index, output>>]]
                /\ applied' = [applied EXCEPT ![index] = @ + 1]
       ELSE /\ channels.send_to_thread = 0
            /\ channels' = [channels EXCEPT !.send_to_parent = @ - 1]
            /\ threads' = [threads EXCEPT ![t].pc = "done"]
            /\ UNCHANGED applied
    /\ UNCHANGED <<input_vec, num_threads, output_vec, parent>>
    /\ UNCHANGED <<deet_vars, backtrace_frame, dedup_frame, proxy_vars>>

(* A worker at send_to_parent.send(output_pair).expect(..): the send       *)
(* fails, and the expect panics, once the calling thread has returned and  *)
(* dropped receive_from_thread; the panic drops the worker's sender.       *)
WorkerSend(t) ==
    /\ threads[t].pc = "send"
    /\ IF parent.pc = "returned"
       THEN /\ threads' = [threads EXCEPT ![t].pc = "panicked"]
            /\ channels' = [channels EXCEPT !.send_to_parent = @ - 1]
       ELSE /\ Len(channels.to_parent) < Len(input_vec)
            /\ channels' = [channels EXCEPT !.to_parent = Append(@, threads[t].output_pair)]
            /\ threads' = [threads EXCEPT ![t] = [pc |-> "recv", output_pair |-> <<>>]]
    /\ UNCHANGED <<input_vec, num_threads, output_vec, parent, applied>>
    /\ UNCHANGED <<deet_vars, backtrace_frame, dedup_frame, proxy_vars>>

ParallelMapNext ==
    \/ SpawnThread
    \/ DropSendToParent
    \/ SendInput
    \/ DropSendToThread
    \/ RecvOutput
    \/ Return
    \/ \E t \in DOMAIN threads : WorkerRecv(t)
    \/ \E t \in DOMAIN threads : WorkerSend(t)

ParallelMapSpec == ParallelMapInit /\ [][ParallelMapNext]_vars

\* every thread the OS has started is scheduled again and again
ParallelMapFairSpec ==
    /\ ParallelMapSpec
    /\ WF_vars(SpawnThread \/ DropSendToParent \/ SendInput \/ DropSendToThread
               \/ RecvOutput \/ Return)
    /\ \A t \in 1..(MaxThreads + 1) :
           WF_vars(t \in DOMAIN threads /\ (WorkerRecv(t) \/ WorkerSend(t)))

\* parallel_map has returned output_vec
Returned == parent.pc = "returned"

(* C34 (as claimed): whatever num_threads is and however the workers are   *)
(* scheduled, the vector parallel_map returns has the length of its input  *)
(* and holds f(input_vec[k]) at every index k, and f was called exactly    *)
(* once on every input.                                                    *)
C34_ParallelMapReturnsMappedVector ==
    Returned
    => /\ Len(output_vec) = Len(input_vec)
       /\ \A k \in DOMAIN input_vec :
              /\ output_vec[k] = f(input_vec[k])
              /\ applied[k] = 1

====
